---- MODULE Spec2Model ----
(***************************************************************************)
(* Block ingestion of shepelt/partyhouse (server/kpis.js, server/scheduler.js). *)
(*                                                                         *)
(* processNewBlocks and backfillBridgeActivity are async functions: every  *)
(* `await` is a point where another invocation, the chain or a process     *)
(* crash may interleave.  An invocation is a slot of `runs`; its position  *)
(* is the field pc, its JavaScript locals are the other fields.  One       *)
(* action is one stretch of code between two awaits that touch the         *)
(* database or the chain client.                                           *)
(***************************************************************************)
EXTENDS Integers, Sequences, FiniteSets, Bags, TLC

VARIABLES
    height,       \* chain client: the height eth_blockNumber answers
    base,         \* chain client: height of the first block of the modelled chain segment
    cfg,          \* Meteor.settings.hpp.backfill.bridgeActivity: [enabled, blockCount]
    activity,     \* AddressActivityCollection: bag of {address, timestamp, blockNumber}
    bridge,       \* BridgeActivityCollection: bag of {txHash, type, from, to, value, ...}
    runs,         \* in-flight and finished invocations of the two scans, by slot
    started,      \* number of scans triggered so far (bounded by MaxRuns)
    crashes,      \* number of process crashes so far (bounded by MaxCrashes)
    faults,       \* number of failed calls so far (bounded by MaxFaults)
    crashStart,   \* history: startBlock of the resuming scan a crash interrupted
    lastScanEnd,  \* history: currentBlock of the last completed processNewBlocks scan
    clock,        \* Date.now(), in milliseconds
    ticks,        \* number of times the clock has advanced (bounded by MaxTicks)
    ethPriceCache,\* let ethPriceCache = { price, timestamp }
    priceCalls,   \* in-flight and finished invocations of getEthPrice, by slot
    priceStarted, \* number of getEthPrice calls so far (bounded by MaxPriceCalls)
    lastGood,     \* history: the price of the last upstream request that succeeded
    daily,        \* DailyTransactionsCollection: bag of {date, count, timestamp}
    weekly,       \* WeeklyActiveAddressesCollection: bag of {date, count, timestamp}
    tvl,          \* TvlCollection: bag of {_id, timestamp, tvlInETH, tvlInUSD, updatedAt}
    job,          \* the invocation of a KPI operation: its position, locals and result
    sched         \* the startup sequence and the timers of scheduler.js

\* what the block scans read and write
scanVars == <<height, base, cfg, activity, bridge, runs, started, crashes,
              faults, crashStart, lastScanEnd>>

\* what the KPI operations read and write besides the collections
kpiVars == <<clock, ticks, ethPriceCache, priceCalls, priceStarted, lastGood,
             daily, weekly, tvl, job, sched>>

\* the snapshot collections, the KPI operation at work and the scheduler
jobVars == <<daily, weekly, tvl, job, sched>>

vars == <<scanVars, kpiVars>>

----------------------------------------------------------------------------
(* Bounds of the model *)

MaxRuns == 2        \* scans triggered in one behaviour
MaxCrashes == 1     \* process crashes in one behaviour
MaxGrow == 1        \* blocks the chain grows by after Init
MaxFaults == 1      \* failed calls (chain client, explorer, database) in one behaviour

(* Program constants *)

DEPOSIT_TX_TYPE == 105      \* tx.type === 105
LOOKBACK == 100             \* Math.max(0, currentBlock - 100)
GENESIS_START == 1          \* startBlock = 1

None == -1                  \* findOneAsync found no document

Slots == {"s1", "s2"}

ARBSYS_ADDRESS == "0x64"

Max(a, b) == IF a >= b THEN a ELSE b

----------------------------------------------------------------------------
(* The chain the client reads: block base+d holds Content(d). *)

Tx == {"t1", "t2", "t3"}

\* what provider.getTransaction(txHash) answers; `deposit` is the value of the
\* first internal transfer from the zero address (Blockscout), in 1e15 wei
TxInfo(t) ==
    CASE t = "t1" -> [from |-> "0xAa", to |-> "0xBb", type |-> 105, value |-> 0,    deposit |-> 1500]
      [] t = "t2" -> [from |-> "0xBb", to |-> "0x64", type |-> 2,   value |-> 2000, deposit |-> 0]
      [] t = "t3" -> [from |-> "0xCc", to |-> "0x64", type |-> 105, value |-> 1000, deposit |-> 500]

\* block.transactions, by offset from base
Content(d) ==
    CASE d = 1 -> <<"t1", "t2">>
      [] d = 3 -> <<"t3">>
      [] OTHER -> <<>>

BlockTxs(h) == IF h < base THEN <<>> ELSE Content(h - base)

\* block.timestamp (seconds): the chain's clock starts with block 0, whose
\* timestamp is 0 (the epoch), and every later block carries a later one
BlockTimestamp(h) == h

TxBlock(t) == base + (CHOOSE d \in 0..3 : \E k \in 1..Len(Content(d)) : Content(d)[k] = t)

\* String.prototype.toLowerCase on the addresses of the model
toLowerCase(a) ==
    CASE a = "0xAa" -> "0xaa"
      [] a = "0xBb" -> "0xbb"
      [] a = "0xCc" -> "0xcc"
      [] OTHER -> a

\* Number(wei) / 1e18: the model's amounts are in 1e15 wei and whole multiples of
\* 1e17 wei, the resulting ETH values are kept in tenths of an ETH
WeiToEth(w) == w \div 100

\* new Date(): the wall clock, later than every block timestamp
Clock == 90000..90001

\* block.timestamp ? new Date(block.timestamp * 1000) : new Date()
BlockDate(h, now) == IF BlockTimestamp(h) # 0 THEN BlockTimestamp(h) * 1000 ELSE now

----------------------------------------------------------------------------
(* The two collections *)

\* faulty variant of Insert: the document is written over a stored one
InsertInPlace(store, doc) ==
    IF DOMAIN store = {} THEN SetToBag({doc})
    ELSE (store (-) SetToBag({CHOOSE d \in DOMAIN store : TRUE})) (+) SetToBag({doc})

\* faulty variant of Insert: the document replaces what the collection held
InsertReplaces(store, doc) == SetToBag({doc})

\* collection.insertAsync(doc)
Insert(store, doc) == store (+) SetToBag({doc})

\* AddressActivityCollection.findOneAsync({}, {sort: {blockNumber: -1}, limit: 1}),
\* reduced to the blockNumber of the document found (None when the collection is empty)
LastProcessed(store) ==
    IF BagToSet(store) = {} THEN None
    ELSE CHOOSE b \in {d.blockNumber : d \in BagToSet(store)} :
             \A d \in BagToSet(store) : d.blockNumber <= b

\* BridgeActivityCollection.findOneAsync({ txHash }) found a document
Existing(store, t) == \E d \in BagToSet(store) : d.txHash = t

ActivityDoc(t, h, ts) ==
    [address |-> toLowerCase(TxInfo(t).from), timestamp |-> ts, blockNumber |-> h]

DepositDoc(t, h, ts, amount) ==
    [txHash |-> t, type |-> "deposit", from |-> toLowerCase(TxInfo(t).from),
     to |-> toLowerCase(TxInfo(t).to), value |-> amount, timestamp |-> ts,
     blockNumber |-> h]

WithdrawalDoc(t, h, ts) ==
    [txHash |-> t, type |-> "withdrawal", from |-> toLowerCase(TxInfo(t).from),
     to |-> ARBSYS_ADDRESS, value |-> WeiToEth(TxInfo(t).value), timestamp |-> ts,
     blockNumber |-> h]

\* tx.type === 105
IsDeposit(t) == TxInfo(t).type = DEPOSIT_TX_TYPE

\* tx.to && tx.to.toLowerCase() === ARBSYS_ADDRESS && tx.value && Number(tx.value) > 0
IsWithdrawal(t) ==
    /\ TxInfo(t).to # "null"
    /\ toLowerCase(TxInfo(t).to) = ARBSYS_ADDRESS
    /\ TxInfo(t).value # 0
    /\ TxInfo(t).value > 0

\* fetchDepositAmount(txHash): 0 unless the explorer answers with the transfer
fetchDepositAmount(t, answer) ==
    IF answer = "found" /\ TxInfo(t).deposit # 0 THEN WeiToEth(TxInfo(t).deposit) ELSE 0

\* the answers that make it return 0: no items, a non-2xx status, an exception
BadAnswers == {"empty", "httpError", "throw"}

----------------------------------------------------------------------------
(* Start of a scan *)

\* faulty variant of StartBlockPNB: the scan starts again at the last processed block
StartBlockPNBSame(last, cur) == IF last # None THEN last ELSE Max(0, cur - LOOKBACK)

\* processNewBlocks: lastActivity ? lastActivity.blockNumber + 1 : Math.max(0, currentBlock - 100)
StartBlockPNB(last, cur) == IF last # None THEN last + 1 ELSE Max(0, cur - LOOKBACK)

\* backfillBridgeActivity with blockCount === -1
StartBlockResume(last) == IF last # None /\ last > 1 THEN last + 1 ELSE GENESIS_START

\* backfillBridgeActivity with blockCount > 0
StartBlockLastN(count, end) == Max(1, end - count + 1)

----------------------------------------------------------------------------
(* One invocation of a scan: its position and its locals *)

IdleRun ==
    [kind |-> "none", pc |-> "idle", count |-> 0, endBlock |-> 0, lastActivity |-> None,
     startBlock |-> 0, i |-> 0, k |-> 0, blockTimestamp |-> 0, ret |-> 0, err |-> "none",
     tx |-> "none", nAct |-> 0, nDep |-> 0, nWd |-> 0]

Free(r) == r.pc \in {"idle", "done", "aborted"}

InFlight(r) == ~Free(r)

Scanning(r) == r.pc \in {"block", "tx", "dep", "depIns", "wd", "wdIns"}

\* a scan that starts at the resume point: processNewBlocks, or the backfill with blockCount -1
Resuming(r) == r.kind = "pnb" \/ (r.kind = "bf" /\ r.count = -1)

\* the slot a new invocation takes
FreeSlot == CHOOSE s \in Slots : Free(runs[s])

\* catch (error) { ...; return 0 } of the whole function
Abort(r, why) == [r EXCEPT !.pc = "aborted", !.err = why, !.ret = 0]

\* the loop is over: return currentBlock - startBlock + 1 / blocksScanned: totalBlocks
Finish(r) == [r EXCEPT !.pc = "done", !.ret = r.endBlock - r.startBlock + 1]

\* if (startBlock > currentBlock) return 0 (processNewBlocks); the backfill has no
\* such test: its loop runs zero times and it returns totalBlocks
BeginScan(r) ==
    IF r.startBlock > r.endBlock
    THEN IF r.kind = "pnb" THEN [r EXCEPT !.pc = "done", !.ret = 0] ELSE Finish(r)
    ELSE [r EXCEPT !.pc = "block", !.i = r.startBlock, !.k = 0]

\* faulty variant of NextBlock: the loop goes round without i++
NextBlockAgain(r) ==
    IF r.i + 1 > r.endBlock THEN Finish([r EXCEPT !.i = r.i + 1, !.k = 0])
    ELSE [r EXCEPT !.pc = "block", !.k = 0]

\* faulty variant of NextBlock: the loop test reads the chain's height anew
NextBlockLive(r) ==
    IF r.i + 1 > height THEN Finish([r EXCEPT !.i = r.i + 1, !.k = 0])
    ELSE [r EXCEPT !.pc = "block", !.i = r.i + 1, !.k = 0]

\* i++ of the block loop, and its test i <= currentBlock
NextBlock(r) ==
    IF r.i + 1 > r.endBlock THEN Finish([r EXCEPT !.i = r.i + 1, !.k = 0])
    ELSE [r EXCEPT !.pc = "block", !.i = r.i + 1, !.k = 0]

\* the next txHash of block.transactions, or the end of the block
NextTx(r) ==
    IF r.k < Len(BlockTxs(r.i)) THEN [r EXCEPT !.pc = "tx", !.k = r.k + 1]
    ELSE NextBlock(r)

\* a block fetch that throws: processNewBlocks awaits getBlock(i) outside every inner
\* try, the backfill catches it per block (catch (blockError) { continue })
BlockThrows(r) == IF r.kind = "pnb" THEN Abort(r, "block") ELSE NextBlock(r)

\* faulty variant of TxThrows: no try around the transaction, the throw reaches
\* the outer catch
TxThrowsAborts(r) == Abort(r, "tx")

\* a transaction whose fetch or whose write throws: catch (txError) { continue }
TxThrows(r) == NextTx(r)

\* after the withdrawal test of the current transaction
AfterDeposit(r) == IF IsWithdrawal(r.tx) THEN [r EXCEPT !.pc = "wd"] ELSE NextTx(r)

\* after the activity insert of the current transaction
AfterActivity(r) == IF IsDeposit(r.tx) THEN [r EXCEPT !.pc = "dep"] ELSE AfterDeposit(r)

\* an activity insert that throws: processNewBlocks leaves the transaction
\* (catch (txError)), the backfill swallows it (catch (addressError)) and goes on
ActivityThrows(r) == IF r.kind = "pnb" THEN TxThrows(r) ELSE AfterActivity(r)

\* history: the scan in slot s moves to r2
Step(s, r2) ==
    /\ runs' = [runs EXCEPT ![s] = r2]
    /\ lastScanEnd' = IF r2.pc = "done" /\ r2.kind = "pnb" /\ r2.startBlock <= r2.endBlock
                      THEN r2.endBlock ELSE lastScanEnd

\* outcomes of a call: the good one, and the bad ones within the budget of failures
Outcomes(good, bad) == {good} \cup (IF faults < MaxFaults THEN bad ELSE {})

\* history: a bad outcome uses up one failure of the budget
Count(out, good) == faults' = IF out = good THEN faults ELSE faults + 1

----------------------------------------------------------------------------
(* Triggers *)

\* scheduler.js: the 15-minute timer calls updateWeeklyActiveAddresses, which
\* calls processNewBlocks first; setInterval does not wait for the previous call
TimerFire(s) ==
    /\ started < MaxRuns
    /\ s = FreeSlot
    /\ started' = started + 1
    /\ Step(s, [IdleRun EXCEPT !.kind = "pnb", !.pc = "height"])
    /\ UNCHANGED kpiVars
    /\ UNCHANGED <<height, base, cfg, activity, bridge, crashes, faults, crashStart>>

\* Meteor.startup and the method kpis.backfillBridgeActivity call backfillBridgeActivity
CallBackfill(s) ==
    /\ started < MaxRuns
    /\ s = FreeSlot
    /\ started' = started + 1
    /\ LET r == [IdleRun EXCEPT !.kind = "bf", !.count = cfg.blockCount]
       IN  IF ~cfg.enabled \/ cfg.blockCount = 0
           THEN Step(s, [r EXCEPT !.pc = "done", !.ret = 0])
           ELSE Step(s, [r EXCEPT !.pc = "height"])
    /\ UNCHANGED kpiVars
    /\ UNCHANGED <<height, base, cfg, activity, bridge, crashes, faults, crashStart>>

----------------------------------------------------------------------------
(* Steps of a scan *)

\* getProvider(); await provider.getBlockNumber()
ReadHeight(s) ==
    /\ runs[s].pc = "height"
    /\ \E out \in Outcomes("ok", {"throw"}) :
         LET r == [runs[s] EXCEPT !.endBlock = height]
         IN  /\ Step(s, IF out = "throw" THEN Abort(runs[s], "height")
                        ELSE IF Resuming(r) THEN [r EXCEPT !.pc = "cursor"]
                        ELSE BeginScan([r EXCEPT !.startBlock = StartBlockLastN(r.count, height)]))
             /\ Count(out, "ok")
    /\ UNCHANGED kpiVars
    /\ UNCHANGED <<height, base, cfg, activity, bridge, started, crashes, crashStart>>

\* await AddressActivityCollection.findOneAsync({}, {sort: {blockNumber: -1}})
ReadCursor(s) ==
    /\ runs[s].pc = "cursor"
    /\ \E out \in Outcomes("ok", {"throw"}) :
         LET last == LastProcessed(activity)
             r == [runs[s] EXCEPT !.lastActivity = last]
         IN  /\ Step(s, IF out = "throw" THEN Abort(runs[s], "cursor")
                        ELSE IF r.kind = "pnb"
                             THEN BeginScan([r EXCEPT !.startBlock = StartBlockPNB(last, r.endBlock)])
                             ELSE BeginScan([r EXCEPT !.startBlock = StartBlockResume(last)]))
             /\ Count(out, "ok")
    /\ UNCHANGED kpiVars
    /\ UNCHANGED <<height, base, cfg, activity, bridge, started, crashes, crashStart>>

\* await getBlock(i) / await provider.getBlock(i)
FetchBlock(s) ==
    /\ runs[s].pc = "block"
    /\ \E out \in Outcomes("ok", {"null", "throw"}), now \in Clock :
         LET r == runs[s]
         IN  /\ Step(s, IF out = "throw" THEN BlockThrows(r)
                        ELSE IF out = "null" \/ Len(BlockTxs(r.i)) = 0 THEN NextBlock(r)
                        ELSE [r EXCEPT !.blockTimestamp = BlockDate(r.i, now),
                                       !.k = 1, !.pc = "tx"])
             /\ Count(out, "ok")
    /\ UNCHANGED kpiVars
    /\ UNCHANGED <<height, base, cfg, activity, bridge, started, crashes, crashStart>>

\* await provider.getTransaction(txHash); if (tx && tx.from) insert the activity
FetchTx(s) ==
    /\ runs[s].pc = "tx"
    /\ \E out \in Outcomes("ok", {"null", "throw", "insertThrows"}) :
         LET t == BlockTxs(runs[s].i)[runs[s].k]
             r == [runs[s] EXCEPT !.tx = t, !.nAct = 0, !.nDep = 0, !.nWd = 0]
         IN  /\ Step(s, CASE out = "throw" -> TxThrows(r)
                          [] out = "null" -> NextTx(r)
                          [] out = "insertThrows" -> ActivityThrows(r)
                          [] out = "ok" -> AfterActivity([r EXCEPT !.nAct = 1]))
             /\ activity' = IF out = "ok"
                            THEN Insert(activity, ActivityDoc(t, r.i, r.blockTimestamp))
                            ELSE activity
             /\ Count(out, "ok")
    /\ UNCHANGED kpiVars
    /\ UNCHANGED <<height, base, cfg, bridge, started, crashes, crashStart>>

\* if (tx.type === 105): processNewBlocks awaits the receipt (which it does not
\* use), the backfill looks the txHash up; a throw of either is caught
\* (catch (receiptError) / catch (depositError)) and no deposit is written
Deposit(s) ==
    /\ runs[s].pc = "dep"
    /\ LET r == runs[s]
       IN  \E out \in Outcomes("ok", {"throw"}) :
             /\ Step(s, IF out = "ok" /\ (r.kind = "pnb" \/ ~Existing(bridge, r.tx))
                        THEN [r EXCEPT !.pc = "depIns"] ELSE AfterDeposit(r))
             /\ Count(out, "ok")
    /\ UNCHANGED kpiVars
    /\ UNCHANGED <<height, base, cfg, activity, bridge, started, crashes, crashStart>>

\* await fetchDepositAmount(txHash); await BridgeActivityCollection.insertAsync
\* (in processNewBlocks the depositsDetected++ after the insert names an
\* undeclared variable: its ReferenceError is caught by catch (receiptError),
\* the document stays)
DepositInsert(s) ==
    /\ runs[s].pc = "depIns"
    /\ LET r == runs[s]
       IN  \E out \in Outcomes("found", {"insertThrows"} \cup BadAnswers) :
             /\ bridge' = IF out = "insertThrows" THEN bridge
                          ELSE Insert(bridge, DepositDoc(r.tx, r.i, r.blockTimestamp,
                                                         fetchDepositAmount(r.tx, out)))
             /\ Step(s, IF out = "insertThrows" THEN AfterDeposit(r)
                        ELSE AfterDeposit([r EXCEPT !.nDep = r.nDep + 1]))
             /\ Count(out, "found")
    /\ UNCHANGED kpiVars
    /\ UNCHANGED <<height, base, cfg, activity, started, crashes, crashStart>>

\* the withdrawal test held: processNewBlocks inserts, the backfill first looks
\* the txHash up
Withdrawal(s) ==
    /\ runs[s].pc = "wd"
    /\ LET r == runs[s]
       IN  IF r.kind = "pnb"
           THEN \E out \in Outcomes("ok", {"insertThrows"}) :
                  /\ bridge' = IF out = "ok"
                               THEN Insert(bridge, WithdrawalDoc(r.tx, r.i, r.blockTimestamp))
                               ELSE bridge
                  /\ Step(s, IF out = "ok" THEN NextTx([r EXCEPT !.nWd = r.nWd + 1])
                             ELSE TxThrows(r))
                  /\ Count(out, "ok")
           ELSE \E out \in Outcomes("ok", {"throw"}) :
                  /\ UNCHANGED bridge
                  /\ Step(s, IF out = "ok" /\ ~Existing(bridge, r.tx)
                             THEN [r EXCEPT !.pc = "wdIns"] ELSE NextTx(r))
                  /\ Count(out, "ok")
    /\ UNCHANGED kpiVars
    /\ UNCHANGED <<height, base, cfg, activity, started, crashes, crashStart>>

\* backfill: await BridgeActivityCollection.insertAsync({... type: 'withdrawal' ...})
WithdrawalInsert(s) ==
    /\ runs[s].pc = "wdIns"
    /\ LET r == runs[s]
       IN  \E out \in Outcomes("ok", {"insertThrows"}) :
             /\ bridge' = IF out = "ok"
                          THEN Insert(bridge, WithdrawalDoc(r.tx, r.i, r.blockTimestamp))
                          ELSE bridge
             /\ Step(s, IF out = "ok" THEN NextTx([r EXCEPT !.nWd = r.nWd + 1]) ELSE NextTx(r))
             /\ Count(out, "ok")
    /\ UNCHANGED kpiVars
    /\ UNCHANGED <<height, base, cfg, activity, started, crashes, crashStart>>

----------------------------------------------------------------------------
(* Environment *)

\* the chain produces a block
ChainGrow ==
    /\ height < base + 3 + MaxGrow
    /\ height' = height + 1
    /\ UNCHANGED kpiVars
    /\ UNCHANGED <<base, cfg, activity, bridge, runs, started, crashes, faults,
                   crashStart, lastScanEnd>>

\* the process dies and is started again: every invocation is gone, the
\* collections stay
Crash ==
    /\ crashes < MaxCrashes
    /\ crashes' = crashes + 1
    /\ runs' = [s \in Slots |-> IdleRun]
    /\ crashStart' =
         IF \E s \in Slots : Scanning(runs[s]) /\ Resuming(runs[s])
         THEN LET ss == {s \in Slots : Scanning(runs[s]) /\ Resuming(runs[s])}
              IN  CHOOSE b \in {runs[s].startBlock : s \in ss} :
                      \A s \in ss : b <= runs[s].startBlock
         ELSE crashStart
    /\ UNCHANGED kpiVars
    /\ UNCHANGED <<height, base, cfg, activity, bridge, started, faults, lastScanEnd>>

----------------------------------------------------------------------------
(* getEthPrice and its single-slot cache *)

MaxTicks == 3           \* advances of the clock in one behaviour
MaxPriceCalls == 3      \* getEthPrice calls in one behaviour

PRICE_CACHE_TTL == 300000       \* 5 * 60 * 1000
DEFAULT_ETH_PRICE == 3000       \* return 3000

\* null, undefined, a missing field and the number 0: the falsy values of the model
Null == 0

\* Date.now() when the process starts: later than the TTL after the epoch
ClockStart == 1000000

\* the clock advances by a millisecond, by just less than the TTL, or by the TTL
TickSteps == {1, PRICE_CACHE_TTL - 1, PRICE_CACHE_TTL}

PriceSlots == {"p1", "p2"}

\* what the CoinGecko request ends with: the network fails (fetch rejects), a
\* status that is not 2xx, or a body whose ethereum.usd is a price or is missing
Upstream ==
    {[kind |-> "networkError", usd |-> Null], [kind |-> "httpError", usd |-> Null],
     [kind |-> "ok", usd |-> Null], [kind |-> "ok", usd |-> 3200],
     [kind |-> "ok", usd |-> 3500]}

\* let ethPriceCache = { price: null, timestamp: 0 }
EmptyCache == [price |-> Null, timestamp |-> 0]

\* faulty variant of CacheFresh: a price of exactly the TTL's age still counts
CacheFreshInclusive(cache, now) ==
    cache.price # Null /\ (now - cache.timestamp) <= PRICE_CACHE_TTL

\* ethPriceCache.price && (now - ethPriceCache.timestamp) < PRICE_CACHE_TTL
CacheFresh(cache, now) ==
    cache.price # Null /\ (now - cache.timestamp) < PRICE_CACHE_TTL

\* faulty variant of PriceMissing: the test of the price is left out
PriceNeverMissing(price) == FALSE

\* if (!price) throw new Error('ETH price not found in response')
PriceMissing(price) == price = Null

\* the try block throws: fetch rejected, !response.ok, or !price
UpstreamThrows(ans) == ans.kind # "ok" \/ PriceMissing(ans.usd)

\* faulty variant of StalePrice: the catch block goes straight to the default
StalePriceDefault(cache) == DEFAULT_ETH_PRICE

\* catch (error): if (ethPriceCache.price) return ethPriceCache.price; return 3000
StalePrice(cache) == IF cache.price # Null THEN cache.price ELSE DEFAULT_ETH_PRICE

\* faulty variant of Refreshed: the catch block caches the price it falls back
\* to, with the time of the failed request
RefreshedDefault(cache, ans, now) ==
    IF UpstreamThrows(ans) THEN [price |-> StalePrice(cache), timestamp |-> now]
    ELSE [price |-> ans.usd, timestamp |-> now]

\* the cache after the request of a call that began at `now` has ended:
\* ethPriceCache = { price, timestamp: now } is the last statement of the try
\* block, the catch block assigns nothing
Refreshed(cache, ans, now) ==
    IF UpstreamThrows(ans) THEN cache ELSE [price |-> ans.usd, timestamp |-> now]

\* one invocation of getEthPrice: its position, its local `now`, what it returned;
\* history: the upstream requests it made, whether its request failed, and the
\* last successful request as it stood when the call began
IdlePrice ==
    [pc |-> "idle", now |-> 0, ret |-> Null, fetches |-> 0, failed |-> FALSE,
     seen |-> [price |-> Null, at |-> 0], stale |-> Null]

PriceFree(c) == c.pc \in {"idle", "done"}

\* the slot a new call takes
FreePriceSlot == CHOOSE p \in PriceSlots : PriceFree(priceCalls[p])

\* const now = Date.now(); a fresh cache answers at once, otherwise await fetch(...)
PriceCall(p) ==
    /\ priceStarted < MaxPriceCalls
    /\ \E q \in PriceSlots : PriceFree(priceCalls[q])
    /\ p = FreePriceSlot
    /\ priceStarted' = priceStarted + 1
    /\ LET c == [IdlePrice EXCEPT !.now = clock, !.seen = lastGood]
       IN  priceCalls' = [priceCalls EXCEPT ![p] =
               IF CacheFresh(ethPriceCache, clock)
               THEN [c EXCEPT !.pc = "done", !.ret = ethPriceCache.price]
               ELSE [c EXCEPT !.pc = "fetch"]]
    /\ UNCHANGED <<clock, ticks, ethPriceCache, lastGood>>
    /\ UNCHANGED <<scanVars, jobVars>>

\* the request ends: the cache is written and the price returned, or the catch
\* block answers from the cache as it is now
PriceFetch(p) ==
    /\ priceCalls[p].pc = "fetch"
    /\ \E ans \in Upstream :
         LET c == [priceCalls[p] EXCEPT !.pc = "done", !.fetches = @ + 1]
         IN  /\ ethPriceCache' = Refreshed(ethPriceCache, ans, c.now)
             /\ IF UpstreamThrows(ans)
                THEN /\ priceCalls' = [priceCalls EXCEPT ![p] =
                           [c EXCEPT !.failed = TRUE, !.ret = StalePrice(ethPriceCache),
                                     !.stale = lastGood.price]]
                     /\ UNCHANGED lastGood
                ELSE /\ priceCalls' = [priceCalls EXCEPT ![p] = [c EXCEPT !.ret = ans.usd]]
                     /\ lastGood' = [price |-> ans.usd, at |-> c.now]
    /\ UNCHANGED <<clock, ticks, priceStarted>>
    /\ UNCHANGED <<scanVars, jobVars>>

\* time passes
Tick ==
    /\ ticks < MaxTicks
    /\ ticks' = ticks + 1
    /\ \E d \in TickSteps : clock' = clock + d
    /\ UNCHANGED <<ethPriceCache, priceCalls, priceStarted, lastGood>>
    /\ UNCHANGED <<scanVars, jobVars>>

----------------------------------------------------------------------------
(* The aggregations over the activity collection *)

MaxDocs == 2            \* activity documents stored in one behaviour of the KPI operations
MaxDays == 2            \* largest `days` argument of a snapshot backfill
MaxJobs == 1            \* KPI operations called in one behaviour

DAY_MS == 24 * 60 * 60 * 1000
WEEK_MS == 7 * 24 * 60 * 60 * 1000
NOON_MS == 12 * 60 * 60 * 1000

\* SYSTEM_ADDRESSES: the null address and the precompiles (the model's short names)
SYSTEM_ADDRESSES == {"0x00", "0x64", "0x6e"}

\* date.setHours(0, 0, 0, 0): the start of the calendar day of t
Midnight(t) == (t \div DAY_MS) * DAY_MS

\* date.setDate(date.getDate() - n); date.setHours(0, 0, 0, 0)
DaysBefore(t, n) == Midnight(t) - n * DAY_MS

\* the documents `docs` of a collection, with their multiplicities
Select(store, docs) == [d \in docs \cap DOMAIN store |-> store[d]]

\* find({...}).countAsync()
CountDocs(store) == BagCardinality(store)

\* faulty variant of MatchWeekly: the system addresses are not left out
MatchWeeklyAll(store, since, before) ==
    Select(store, {d \in DOMAIN store : d.timestamp >= since /\ d.timestamp < before})

\* $match: { timestamp: { $gte: since [, $lt: before] }, address: { $nin: SYSTEM_ADDRESSES } }
MatchWeekly(store, since, before) ==
    Select(store, {d \in DOMAIN store : /\ d.timestamp >= since
                                        /\ d.timestamp < before
                                        /\ d.address \notin SYSTEM_ADDRESSES})

\* faulty variant of Group: one group for every document
GroupEach(matched) == UNION {{<<d, n>> : n \in 1..matched[d]} : d \in DOMAIN matched}

\* $group: { _id: '$address' }
Group(matched) == {d.address : d \in DOMAIN matched}

\* $count: 'uniqueAddresses' (no document at all when there is no group);
\* result.length > 0 ? result[0].uniqueAddresses : 0
CountGroups(groups) ==
    LET result == IF groups = {} THEN <<>>
                  ELSE <<[uniqueAddresses |-> Cardinality(groups)]>>
    IN  IF Len(result) > 0 THEN result[1].uniqueAddresses ELSE 0

\* later than every timestamp: the live aggregation has no upper end
Forever == 2000000000

\* calculateWeeklyActiveAddresses: sevenDaysAgo = new Date(Date.now() - 7 * 24 * 60 * 60 * 1000)
WeeklyActive(store, now) == CountGroups(Group(MatchWeekly(store, now - WEEK_MS, Forever)))

\* backfillWeeklyActiveAddressHistory: the window of the snapshot of day `date`,
\* from sevenDaysBefore (date - 7 days) to snapshotEndOfDay (date + 1 day)
WeeklyActiveOn(store, date) ==
    CountGroups(Group(MatchWeekly(store, date - 7 * DAY_MS, date + DAY_MS)))

\* faulty variant of DailyCountOn: the system addresses are left out, as in
\* the weekly aggregation
DailyCountOnActive(store, date) == CountDocs(MatchWeekly(store, date, date + DAY_MS))

\* backfillDailyTransactionHistory: find({ timestamp: { $gte: date, $lt: nextDay } }).countAsync()
DailyCountOn(store, date) ==
    CountDocs(Select(store, {d \in DOMAIN store :
                                d.timestamp >= date /\ d.timestamp < date + DAY_MS}))

\* the snapshot both backfills store: noon of the day as its timestamp
Snapshot(date, count, now) ==
    [date |-> date, count |-> count, timestamp |-> date + NOON_MS, updatedAt |-> now]

----------------------------------------------------------------------------
(* KPI operations *)

\* midnight of the day the KPI operations run on
Today == 12 * DAY_MS

\* Date.now() when a KPI operation is called: early and late in the day
KpiClocks == {Today + 1000, Today + NOON_MS + 1}

\* the timestamps of the activity documents the scans have stored: the first
\* millisecond of today, the last one of yesterday, and the two sides of
\* `seven days ago` as the early clock sees it
KpiTimestamps == {Today, Today - 1, Today + 1000 - WEEK_MS, Today + 999 - WEEK_MS}

KpiAddresses == {"0xaa", "0xbb", "0x64"}

\* one invocation of a KPI operation: position, arguments, locals, result;
\* history: n counts the invocations, snaps lists the snapshots this one stored,
\* looked lists the amount lookups it made (the document, the amount returned,
\* whether the update was stored), queries counts the balance queries it made,
\* calcFailed tells that the count it asked for threw; addresses is the array
\* getWeeklyActiveAddressDetails returns
IdleJob ==
    [op |-> "none", pc |-> "idle", n |-> 0, days |-> 0, now |-> 0, i |-> 0,
     count |-> 0, created |-> 0, ret |-> 0, failed |-> FALSE, snaps |-> <<>>,
     todo |-> <<>>, amount |-> 0, updated |-> 0, errors |-> 0, total |-> None,
     looked |-> <<>>, balance |-> None, eth |-> 0, usd |-> 0, queries |-> 0,
     calcFailed |-> FALSE, addresses |-> <<>>]

\* the operation has returned, or has thrown to its caller
JobFree == job.pc \in {"idle", "done", "threw"}

\* a new invocation of op with its argument
NewJob(op, days) ==
    [IdleJob EXCEPT !.op = op, !.n = job.n + 1, !.days = days, !.now = clock]

\* catch (error) { ...; return 0 } / return { count: 0 }
JobFails(j) == [j EXCEPT !.pc = "done", !.failed = TRUE, !.ret = 0]

\* a scan stores an activity document (AddressActivityCollection.insertAsync),
\* possibly one more copy of a document it stored before; here the scans write
\* between two KPI operations
StoreActivity ==
    /\ JobFree
    /\ BagCardinality(activity) < MaxDocs
    /\ \E a \in KpiAddresses, ts \in KpiTimestamps :
         activity' = Insert(activity, [address |-> a, timestamp |-> ts, blockNumber |-> 1])
    /\ UNCHANGED <<height, base, cfg, bridge, runs, started, crashes, faults,
                   crashStart, lastScanEnd>>
    /\ UNCHANGED kpiVars

\* calculateWeeklyActiveAddresses()
CalcWeekly ==
    /\ JobFree /\ job.n < MaxJobs
    /\ \E out \in Outcomes("ok", {"throw"}) :
         LET j == NewJob("calculateWeeklyActiveAddresses", 0)
         IN  /\ job' = IF out = "throw" THEN JobFails(j)
                       ELSE [j EXCEPT !.pc = "done", !.ret = WeeklyActive(activity, clock)]
             /\ Count(out, "ok")
    /\ UNCHANGED <<height, base, cfg, activity, bridge, runs, started, crashes,
                   crashStart, lastScanEnd>>
    /\ UNCHANGED <<sched, clock, ticks, ethPriceCache, priceCalls, priceStarted, lastGood,
                   daily, weekly, tvl>>

\* faulty variant of BackfillLoop: the loop runs once more (i <= days)
BackfillLoopInclusive(j) ==
    IF j.i <= j.days THEN [j EXCEPT !.pc = "count"]
    ELSE [j EXCEPT !.pc = "done", !.ret = j.created]

\* for (let i = 0; i < days; i++): the next day, or return snapshotsCreated
BackfillLoop(j) ==
    IF j.i < j.days THEN [j EXCEPT !.pc = "count"]
    ELSE [j EXCEPT !.pc = "done", !.ret = j.created]

\* backfillDailyTransactionHistory(days) and backfillWeeklyActiveAddressHistory(days)
\* are called: const now = new Date(); let snapshotsCreated = 0
BackfillHistory(op) ==
    /\ JobFree /\ job.n < MaxJobs
    /\ \E days \in 0..MaxDays : job' = BackfillLoop(NewJob(op, days))
    /\ UNCHANGED scanVars
    /\ UNCHANGED <<sched, clock, ticks, ethPriceCache, priceCalls, priceStarted, lastGood,
                   daily, weekly, tvl>>

\* the count of day i: countAsync() of the day's documents, or the aggregation
\* over the window that ends with the day
BackfillCount ==
    /\ job.pc = "count"
    /\ \E out \in Outcomes("ok", {"throw"}) :
         LET date == DaysBefore(job.now, job.i)
             n == IF job.op = "backfillDailyTransactionHistory"
                  THEN DailyCountOn(activity, date)
                  ELSE WeeklyActiveOn(activity, date)
         IN  /\ job' = IF out = "throw" THEN JobFails(job)
                       ELSE [job EXCEPT !.pc = "insert", !.count = n]
             /\ Count(out, "ok")
    /\ UNCHANGED <<height, base, cfg, activity, bridge, runs, started, crashes,
                   crashStart, lastScanEnd>>
    /\ UNCHANGED <<sched, clock, ticks, ethPriceCache, priceCalls, priceStarted, lastGood,
                   daily, weekly, tvl>>

\* insertAsync of the snapshot of day i; snapshotsCreated++
BackfillInsert ==
    /\ job.pc = "insert" /\ job.op # "getTodayTransactions"
    /\ \E out \in Outcomes("ok", {"throw"}) :
         LET snap == Snapshot(DaysBefore(job.now, job.i), job.count, clock)
             j == [job EXCEPT !.created = @ + 1, !.i = @ + 1,
                              !.snaps = Append(@, snap)]
         IN  /\ job' = IF out = "throw" THEN JobFails(job) ELSE BackfillLoop(j)
             /\ daily' = IF out = "ok" /\ job.op = "backfillDailyTransactionHistory"
                         THEN Insert(daily, snap) ELSE daily
             /\ weekly' = IF out = "ok" /\ job.op = "backfillWeeklyActiveAddressHistory"
                          THEN Insert(weekly, snap) ELSE weekly
             /\ Count(out, "ok")
    /\ UNCHANGED <<height, base, cfg, activity, bridge, runs, started, crashes,
                   crashStart, lastScanEnd>>
    /\ UNCHANGED <<sched, clock, ticks, ethPriceCache, priceCalls, priceStarted, lastGood, tvl>>

----------------------------------------------------------------------------
(* Operations that may throw to their caller *)

MaxJobFaults == 2       \* failed calls of the operations below in one behaviour

\* outcomes of a call of these operations, and the failure a bad one uses up
JobOutcomes(good, bad) == {good} \cup (IF faults < MaxJobFaults THEN bad ELSE {})

\* throw error / an await that rejects outside every try
JobThrows(j) == [j EXCEPT !.pc = "threw", !.failed = TRUE]

\* calculateDailyTransactions(): today = midnight of now, tomorrow = today + 1 day;
\* return { count }, or { count: 0 } when the count throws
CalcDaily ==
    /\ JobFree /\ job.n < MaxJobs
    /\ \E out \in JobOutcomes("ok", {"throw"}) :
         LET j == NewJob("calculateDailyTransactions", 0)
         IN  /\ job' = IF out = "throw" THEN JobFails(j)
                       ELSE [j EXCEPT !.pc = "done",
                                      !.ret = DailyCountOn(activity, Midnight(clock))]
             /\ Count(out, "ok")
    /\ UNCHANGED <<height, base, cfg, activity, bridge, runs, started, crashes,
                   crashStart, lastScanEnd>>
    /\ UNCHANGED <<sched, clock, ticks, ethPriceCache, priceCalls, priceStarted, lastGood,
                   daily, weekly, tvl>>

\* getTodayTransactions(): const today = new Date(); today.setHours(0, 0, 0, 0)
TodayCall ==
    /\ JobFree /\ job.n < MaxJobs
    /\ job' = [NewJob("getTodayTransactions", 0) EXCEPT !.pc = "calc"]
    /\ UNCHANGED scanVars
    /\ UNCHANGED <<sched, clock, ticks, ethPriceCache, priceCalls, priceStarted, lastGood,
                   daily, weekly, tvl>>

\* const stats = await calculateDailyTransactions(): the count of today's
\* activity documents, { count: 0 } when the count throws
TodayCalc ==
    /\ job.pc = "calc"
    /\ \E out \in JobOutcomes("ok", {"throw"}) :
         /\ job' = [job EXCEPT !.pc = "insert",
                               !.count = IF out = "ok"
                                         THEN DailyCountOn(activity, Midnight(clock))
                                         ELSE 0,
                               !.calcFailed = (out # "ok")]
         /\ Count(out, "ok")
    /\ UNCHANGED <<height, base, cfg, activity, bridge, runs, started, crashes,
                   crashStart, lastScanEnd>>
    /\ UNCHANGED <<sched, clock, ticks, ethPriceCache, priceCalls, priceStarted, lastGood,
                   daily, weekly, tvl>>

\* await DailyTransactionsCollection.insertAsync({ date: today, count, timestamp: new Date() })
TodayInsert ==
    /\ job.pc = "insert" /\ job.op = "getTodayTransactions"
    /\ \E out \in JobOutcomes("ok", {"throw"}) :
         /\ daily' = IF out = "ok"
                     THEN Insert(daily, [date |-> Midnight(job.now), count |-> job.count,
                                         timestamp |-> clock, updatedAt |-> clock])
                     ELSE daily
         /\ job' = IF out = "ok" THEN [job EXCEPT !.pc = "done", !.ret = job.count]
                   ELSE [job EXCEPT !.pc = "fallback", !.failed = TRUE]
         /\ Count(out, "ok")
    /\ UNCHANGED <<height, base, cfg, activity, bridge, runs, started, crashes,
                   crashStart, lastScanEnd>>
    /\ UNCHANGED <<sched, clock, ticks, ethPriceCache, priceCalls, priceStarted, lastGood,
                   weekly, tvl>>

\* findOneAsync({ date: today }, { sort: { timestamp: -1 } }): the count of the
\* latest snapshot of today, 0 when there is none
LatestToday(store, today) ==
    LET found == {d \in BagToSet(store) : d.date = today}
    IN  IF found = {} THEN 0
        ELSE (CHOOSE d \in found : \A e \in found : e.timestamp <= d.timestamp).count

\* catch (error): the findOneAsync of the fallback is awaited outside every try
TodayFallback ==
    /\ job.pc = "fallback"
    /\ \E out \in JobOutcomes("ok", {"throw"}) :
         /\ job' = IF out = "ok"
                   THEN [job EXCEPT !.pc = "done", !.ret = LatestToday(daily, Midnight(job.now))]
                   ELSE JobThrows(job)
         /\ Count(out, "ok")
    /\ UNCHANGED <<height, base, cfg, activity, bridge, runs, started, crashes,
                   crashStart, lastScanEnd>>
    /\ UNCHANGED <<sched, clock, ticks, ethPriceCache, priceCalls, priceStarted, lastGood,
                   daily, weekly, tvl>>

\* getWeeklyActiveAddresses(): const today = new Date(); today.setHours(0, 0, 0, 0)
WeeklyCall ==
    /\ JobFree /\ job.n < MaxJobs
    /\ job' = [NewJob("getWeeklyActiveAddresses", 0) EXCEPT !.pc = "wcalc"]
    /\ UNCHANGED scanVars
    /\ UNCHANGED <<sched, clock, ticks, ethPriceCache, priceCalls, priceStarted, lastGood,
                   daily, weekly, tvl>>

\* const stats = await calculateWeeklyActiveAddresses(): { count: 0 } when the
\* aggregation throws
WeeklyCalc ==
    /\ job.pc = "wcalc"
    /\ \E out \in JobOutcomes("ok", {"throw"}) :
         /\ job' = [job EXCEPT !.pc = "wstore",
                               !.count = IF out = "ok" THEN WeeklyActive(activity, clock)
                                         ELSE 0]
         /\ Count(out, "ok")
    /\ UNCHANGED <<height, base, cfg, activity, bridge, runs, started, crashes,
                   crashStart, lastScanEnd>>
    /\ UNCHANGED <<sched, clock, ticks, ethPriceCache, priceCalls, priceStarted, lastGood,
                   daily, weekly, tvl>>

\* await WeeklyActiveAddressesCollection.insertAsync(record); return record
WeeklyStore ==
    /\ job.pc = "wstore"
    /\ \E out \in JobOutcomes("ok", {"throw"}) :
         LET record == [date |-> Midnight(job.now), count |-> job.count,
                        timestamp |-> clock, updatedAt |-> clock]
         IN  /\ weekly' = IF out = "ok" THEN Insert(weekly, record) ELSE weekly
             /\ job' = IF out = "ok"
                       THEN [job EXCEPT !.pc = "done", !.ret = job.count,
                                        !.snaps = Append(@, record)]
                       ELSE [job EXCEPT !.pc = "wfallback", !.failed = TRUE]
             /\ Count(out, "ok")
    /\ UNCHANGED <<height, base, cfg, activity, bridge, runs, started, crashes,
                   crashStart, lastScanEnd>>
    /\ UNCHANGED <<sched, clock, ticks, ethPriceCache, priceCalls, priceStarted, lastGood,
                   daily, tvl>>

\* findOneAsync({}, { sort: { timestamp: -1 } }): the counts of the latest
\* snapshots, 0 when there is none
LatestWeekly(store) ==
    IF DOMAIN store = {} THEN {0}
    ELSE {d.count : d \in {e \in DOMAIN store :
                              \A f \in DOMAIN store : f.timestamp <= e.timestamp}}

\* catch (error): the findOneAsync of the fallback is awaited outside every try
WeeklyFallback ==
    /\ job.pc = "wfallback"
    /\ \E out \in JobOutcomes("ok", {"throw"}) : \E n \in LatestWeekly(weekly) :
         /\ job' = IF out = "ok" THEN [job EXCEPT !.pc = "done", !.ret = n]
                   ELSE JobThrows(job)
         /\ Count(out, "ok")
    /\ UNCHANGED <<height, base, cfg, activity, bridge, runs, started, crashes,
                   crashStart, lastScanEnd>>
    /\ UNCHANGED <<sched, clock, ticks, ethPriceCache, priceCalls, priceStarted, lastGood,
                   daily, weekly, tvl>>

\* $min / $max of the timestamps of a group's documents
MinTimestamp(docs) == CHOOSE t \in {d.timestamp : d \in docs} : \A d \in docs : t <= d.timestamp

MaxTimestamp(docs) == CHOOSE t \in {d.timestamp : d \in docs} : \A d \in docs : t >= d.timestamp

\* $group: { _id: '$address', txCount: { $sum: 1 }, firstSeen: { $min: '$timestamp' },
\* lastSeen: { $max: '$timestamp' } } and $project: address: '$_id'
GroupStats(matched) ==
    {LET docs == {d \in DOMAIN matched : d.address = a}
     IN  [address |-> a, txCount |-> BagCardinality(Select(matched, docs)),
          firstSeen |-> MinTimestamp(docs), lastSeen |-> MaxTimestamp(docs)]
     : a \in {d.address : d \in DOMAIN matched}}

\* the arrays that hold every entry once
Arrays(entries) ==
    {s \in [1..Cardinality(entries) -> entries] :
        \A i, k \in DOMAIN s : i # k => s[i] # s[k]}

\* faulty variant of SortByTxCount: ascending ($sort: { txCount: 1 })
SortByTxCountAscending(entries) ==
    {s \in Arrays(entries) : \A i, k \in DOMAIN s : i < k => s[i].txCount <= s[k].txCount}

\* $sort: { txCount: -1 }: every order of the entries with txCount descending
\* (the order of entries with equal txCount is not determined)
SortByTxCount(entries) ==
    {s \in Arrays(entries) : \A i, k \in DOMAIN s : i < k => s[i].txCount >= s[k].txCount}

\* getWeeklyActiveAddressDetails(): the aggregation over the last 7 days,
\* or [] when it throws
AddressDetails ==
    /\ JobFree /\ job.n < MaxJobs
    /\ \E out \in JobOutcomes("ok", {"throw"}) :
         LET j == NewJob("getWeeklyActiveAddressDetails", 0)
             matched == MatchWeekly(activity, clock - WEEK_MS, Forever)
         IN  /\ IF out = "throw"
                THEN job' = [j EXCEPT !.pc = "done", !.failed = TRUE, !.addresses = <<>>]
                ELSE \E addresses \in SortByTxCount(GroupStats(matched)) :
                        job' = [j EXCEPT !.pc = "done", !.addresses = addresses]
             /\ Count(out, "ok")
    /\ UNCHANGED <<height, base, cfg, activity, bridge, runs, started, crashes,
                   crashStart, lastScanEnd>>
    /\ UNCHANGED <<sched, clock, ticks, ethPriceCache, priceCalls, priceStarted, lastGood,
                   daily, weekly, tvl>>

\* what GET /stats answers with
ExplorerStats == [transactions_today |-> 7, total_addresses |-> 40, total_transactions |-> 900]

ExplorerOps ==
    {"fetchBlockscoutStats", "getDailyTransactionsFromExplorer",
     "getTotalAddressesFromExplorer", "getTotalTransactionsFromExplorer"}

\* parseInt(stats.<field>) || 0 of the three getters; the stats themselves
\* (here: their number of fields) for fetchBlockscoutStats
ExplorerResult(op) ==
    CASE op = "getDailyTransactionsFromExplorer" -> ExplorerStats.transactions_today
      [] op = "getTotalAddressesFromExplorer" -> ExplorerStats.total_addresses
      [] op = "getTotalTransactionsFromExplorer" -> ExplorerStats.total_transactions
      [] OTHER -> Cardinality(DOMAIN ExplorerStats)

\* explorer.js: fetchBlockscoutStats logs and rethrows (blockExplorer not
\* configured, fetch rejected, !response.ok); the getters await it without a try
ExplorerCall(op) ==
    /\ JobFree /\ job.n < MaxJobs
    /\ \E out \in JobOutcomes("ok", {"notConfigured", "networkError", "httpError"}) :
         LET j == NewJob(op, 0)
         IN  /\ job' = IF out = "ok" THEN [j EXCEPT !.pc = "done", !.ret = ExplorerResult(op)]
                       ELSE JobThrows(j)
             /\ Count(out, "ok")
    /\ UNCHANGED <<height, base, cfg, activity, bridge, runs, started, crashes,
                   crashStart, lastScanEnd>>
    /\ UNCHANGED <<sched, clock, ticks, ethPriceCache, priceCalls, priceStarted, lastGood,
                   daily, weekly, tvl>>

----------------------------------------------------------------------------
(* backfillDepositAmounts *)

\* the bridge documents the scans store in this part of the model: the deposits
\* of t1 and t3, with the amount found or with 0, and the withdrawal of t2
BridgeDocsStored ==
    UNION {{DepositDoc(t, TxBlock(t), BlockDate(TxBlock(t), 0), a) :
               a \in {0, fetchDepositAmount(t, "found")}} : t \in {u \in Tx : IsDeposit(u)}}
    \cup {WithdrawalDoc(t, TxBlock(t), BlockDate(TxBlock(t), 0)) :
             t \in {u \in Tx : ~IsDeposit(u) /\ IsWithdrawal(u)}}

\* a scan stores a bridge document (BridgeActivityCollection.insertAsync)
StoreBridge ==
    /\ BagCardinality(bridge) < MaxDocs
    /\ \E d \in BridgeDocsStored : bridge' = Insert(bridge, d)
    /\ UNCHANGED <<height, base, cfg, activity, runs, started, crashes, faults,
                   crashStart, lastScanEnd>>
    /\ UNCHANGED kpiVars

\* fetchAsync(): the documents of a bag, one entry for each copy
RECURSIVE Fetch(_)
Fetch(store) ==
    IF DOMAIN store = {} THEN <<>>
    ELSE LET d == CHOOSE e \in DOMAIN store : TRUE
         IN  <<d>> \o Fetch(store (-) SetToBag({d}))

\* find({ type: 'deposit', value: 0 })
DepositsToUpdate(store) ==
    Fetch(Select(store, {d \in DOMAIN store : d.type = "deposit" /\ d.value = 0}))

\* faulty variant of UpdateValue: the document is taken out and not put back
UpdateValueRemoves(store, d, amount) == store (-) SetToBag({d})

\* updateAsync({ _id: deposit._id }, { $set: { value: amount } }): one document changes
UpdateValue(store, d, amount) ==
    IF BagIn(d, store) THEN Insert(store (-) SetToBag({d}), [d EXCEPT !.value = amount])
    ELSE store

\* faulty variant of AmountsNext: the deposit is tried again when no amount was found
AmountsNextRetry(j) ==
    IF j.amount = 0 /\ Len(j.looked) <= Len(j.todo) THEN [j EXCEPT !.pc = "lookup"]
    ELSE IF j.i < Len(j.todo) THEN [j EXCEPT !.pc = "lookup", !.i = j.i + 1]
    ELSE [j EXCEPT !.pc = "done", !.total = Len(j.todo)]

\* for (const deposit of depositsToUpdate): the next deposit, or
\* return { updated, errors, total: depositsToUpdate.length }
AmountsNext(j) ==
    IF j.i < Len(j.todo) THEN [j EXCEPT !.pc = "lookup", !.i = j.i + 1]
    ELSE [j EXCEPT !.pc = "done", !.total = Len(j.todo)]

\* backfillDepositAmounts(): the find; nothing found returns { updated: 0,
\* errors: 0 }; a find that throws is logged and thrown again
AmountsCall ==
    /\ JobFree /\ job.n < MaxJobs
    /\ \E out \in JobOutcomes("ok", {"throw"}) :
         LET j == [NewJob("backfillDepositAmounts", 0) EXCEPT !.todo = DepositsToUpdate(bridge)]
         IN  /\ job' = IF out = "throw" THEN JobThrows([j EXCEPT !.todo = <<>>])
                       ELSE IF Len(j.todo) = 0 THEN [j EXCEPT !.pc = "done"]
                       ELSE [j EXCEPT !.pc = "lookup", !.i = 1]
             /\ Count(out, "ok")
    /\ UNCHANGED <<height, base, cfg, activity, bridge, runs, started, crashes,
                   crashStart, lastScanEnd>>
    /\ UNCHANGED <<sched, clock, ticks, ethPriceCache, priceCalls, priceStarted, lastGood,
                   daily, weekly, tvl>>

\* const amount = await fetchDepositAmount(deposit.txHash); if (amount > 0) ...
\* else errors++
AmountsLookup ==
    /\ job.pc = "lookup"
    /\ \E ans \in {"found"} \cup BadAnswers :
         LET d == job.todo[job.i]
             amount == fetchDepositAmount(d.txHash, ans)
             j == [job EXCEPT !.amount = amount,
                              !.looked = Append(@, [doc |-> d, amount |-> amount,
                                                    stored |-> FALSE])]
         IN  job' = IF amount > 0 THEN [j EXCEPT !.pc = "update"]
                    ELSE AmountsNext([j EXCEPT !.errors = @ + 1])
    /\ UNCHANGED scanVars
    /\ UNCHANGED <<sched, clock, ticks, ethPriceCache, priceCalls, priceStarted, lastGood,
                   daily, weekly, tvl>>

\* await BridgeActivityCollection.updateAsync(...); updated++; an update that
\* throws is caught: errors++
AmountsUpdate ==
    /\ job.pc = "update"
    /\ \E out \in JobOutcomes("ok", {"throw"}) :
         /\ bridge' = IF out = "ok" THEN UpdateValue(bridge, job.todo[job.i], job.amount)
                      ELSE bridge
         /\ job' = IF out = "ok"
                   THEN AmountsNext([job EXCEPT !.updated = @ + 1,
                                                !.looked[Len(job.looked)].stored = TRUE])
                   ELSE AmountsNext([job EXCEPT !.errors = @ + 1])
         /\ Count(out, "ok")
    /\ UNCHANGED <<height, base, cfg, activity, runs, started, crashes,
                   crashStart, lastScanEnd>>
    /\ UNCHANGED <<sched, clock, ticks, ethPriceCache, priceCalls, priceStarted, lastGood,
                   daily, weekly, tvl>>

----------------------------------------------------------------------------
(* TVL: getTVL, updateTVL, calculateTVL, backfillTvlHistory *)

MaxTvlJobs == 4         \* TVL operations called in one behaviour

\* setInterval(..., 5 * 60 * 1000): the time from one call to the next
TVL_INTERVAL == 5 * 60 * 1000

\* what l1Provider.getBalance answers with, in the wei of the model (see WeiToEth)
L1Balances == {500, 700}

\* the settings of the TVL operations: the L1 configuration is there or is missing
TvlConfigs == {[enabled |-> FALSE, blockCount |-> -1, l1 |-> ok] : ok \in BOOLEAN}

\* { timestamp, tvlInETH, tvlInUSD, updatedAt: new Date() }; history: seq, the
\* position of the insert among the inserts into the collection
TvlDoc(ts, eth, usd, now, store) ==
    [timestamp |-> ts, tvlInETH |-> eth, tvlInUSD |-> usd, updatedAt |-> now,
     seq |-> BagCardinality(store) + 1]

\* TvlCollection.findOneAsync({}, { sort: { timestamp: -1 } }): the documents
\* one of which is found (more than one when the greatest timestamp is shared)
LatestTvl(store) ==
    {d \in BagToSet(store) : \A e \in BagToSet(store) : e.timestamp <= d.timestamp}

\* return { tvlInETH: 0, tvlInUSD: null, updatedAt: new Date() }
ZeroTvl == [tvlInETH |-> 0, tvlInUSD |-> Null]

\* what getTVL may return: the values of the record found; zero when there is
\* no record or the query throws
TvlResults(store, out) ==
    IF out = "throw" \/ LatestTvl(store) = {} THEN {ZeroTvl}
    ELSE {[tvlInETH |-> d.tvlInETH, tvlInUSD |-> d.tvlInUSD] : d \in LatestTvl(store)}

\* a call comes when the interval since the call before it has passed
TvlDue == JobFree /\ (job.n = 0 \/ clock > job.now)

\* the interval passes
Later ==
    /\ JobFree /\ job.n > 0 /\ clock = job.now
    /\ clock' = clock + TVL_INTERVAL
    /\ UNCHANGED scanVars
    /\ UNCHANGED <<ticks, ethPriceCache, priceCalls, priceStarted, lastGood, jobVars>>

\* updateTVL(): without an L1 configuration, return await getTVL()
UpdateTvlCall ==
    /\ TvlDue
    /\ job' = [NewJob("updateTVL", 0) EXCEPT !.pc = IF cfg.l1 THEN "balance" ELSE "getTVL"]
    /\ UNCHANGED scanVars
    /\ UNCHANGED <<sched, clock, ticks, ethPriceCache, priceCalls, priceStarted, lastGood,
                   daily, weekly, tvl>>

\* const bridgeBalance = await l1Provider.getBalance(l1Config.bridgeContract);
\* tvlInETH = Number(bridgeBalance) / 1e18; a throw reaches the catch block:
\* return await getTVL()
TvlBalance ==
    /\ job.pc = "balance"
    /\ \E out \in JobOutcomes("ok", {"throw"}), b \in L1Balances :
         /\ job' = IF out = "ok"
                   THEN [job EXCEPT !.pc = "price", !.queries = @ + 1,
                                    !.balance = b, !.eth = WeiToEth(b)]
                   ELSE [job EXCEPT !.pc = "getTVL", !.queries = @ + 1]
         /\ Count(out, "ok")
    /\ UNCHANGED <<height, base, cfg, activity, bridge, runs, started, crashes,
                   crashStart, lastScanEnd>>
    /\ UNCHANGED <<sched, clock, ticks, ethPriceCache, priceCalls, priceStarted, lastGood,
                   daily, weekly, tvl>>

\* const ethPrice = await getEthPrice(); tvlInUSD = tvlInETH * ethPrice (no other
\* getEthPrice call is in flight here: the call is one step)
TvlPrice ==
    /\ job.pc = "price"
    /\ \E ans \in Upstream :
         LET fresh == CacheFresh(ethPriceCache, clock)
             fetched == ~fresh /\ ~UpstreamThrows(ans)
             price == IF fresh THEN ethPriceCache.price
                      ELSE IF fetched THEN ans.usd ELSE StalePrice(ethPriceCache)
         IN  /\ ethPriceCache' = IF fetched THEN [price |-> ans.usd, timestamp |-> clock]
                                 ELSE ethPriceCache
             /\ lastGood' = IF fetched THEN [price |-> ans.usd, at |-> clock] ELSE lastGood
             /\ job' = [job EXCEPT !.pc = "store", !.usd = job.eth * price]
    /\ UNCHANGED scanVars
    /\ UNCHANGED <<sched, clock, ticks, priceCalls, priceStarted, daily, weekly, tvl>>

\* await TvlCollection.insertAsync({ timestamp: new Date(), tvlInETH, tvlInUSD, ... });
\* return { tvlInETH, tvlInUSD }; a throw reaches the catch block
TvlStore ==
    /\ job.pc = "store"
    /\ \E out \in JobOutcomes("ok", {"throw"}) :
         LET doc == TvlDoc(clock, job.eth, job.usd, clock, tvl)
         IN  /\ tvl' = IF out = "ok" THEN Insert(tvl, doc) ELSE tvl
             /\ job' = IF out = "ok"
                       THEN [job EXCEPT !.pc = "done", !.snaps = Append(@, doc)]
                       ELSE [job EXCEPT !.pc = "getTVL", !.failed = TRUE]
             /\ Count(out, "ok")
    /\ UNCHANGED <<height, base, cfg, activity, bridge, runs, started, crashes,
                   crashStart, lastScanEnd>>
    /\ UNCHANGED <<sched, clock, ticks, ethPriceCache, priceCalls, priceStarted, lastGood,
                   daily, weekly>>

\* getTVL() and calculateTVL() (return await getTVL()); the 5-minute timer of
\* scheduler.js calls calculateTVL
TvlRead(op) ==
    /\ TvlDue
    /\ job' = [NewJob(op, 0) EXCEPT !.pc = "getTVL"]
    /\ UNCHANGED scanVars
    /\ UNCHANGED <<sched, clock, ticks, ethPriceCache, priceCalls, priceStarted, lastGood,
                   daily, weekly, tvl>>

\* backfillTvlHistory: for (let i = 0; i < days; i++), or return snapshotsCreated
BackfillTvlLoop(j) ==
    IF j.i < j.days THEN [j EXCEPT !.pc = "tvlStore"]
    ELSE [j EXCEPT !.pc = "done", !.ret = j.created]

\* backfillTvlHistory(days): const currentTvl = await getTVL()
BackfillTvlCall ==
    /\ TvlDue
    /\ \E days \in 0..MaxDays :
         job' = [NewJob("backfillTvlHistory", days) EXCEPT !.pc = "getTVL"]
    /\ UNCHANGED scanVars
    /\ UNCHANGED <<sched, clock, ticks, ethPriceCache, priceCalls, priceStarted, lastGood,
                   daily, weekly, tvl>>

\* the body of getTVL, for each of its callers: updateTVL and calculateTVL return
\* what it returns; backfillTvlHistory returns 0 when tvlInETH === 0
TvlGet ==
    /\ job.pc = "getTVL"
    /\ \E out \in JobOutcomes("ok", {"throw"}) : \E rec \in TvlResults(tvl, out) :
         LET j == [job EXCEPT !.eth = rec.tvlInETH, !.usd = rec.tvlInUSD,
                              !.failed = @ \/ out = "throw"]
         IN  /\ job' = IF job.op # "backfillTvlHistory" THEN [j EXCEPT !.pc = "done"]
                       ELSE IF rec.tvlInETH = 0 THEN [j EXCEPT !.pc = "done", !.ret = 0]
                       ELSE BackfillTvlLoop(j)
             /\ Count(out, "ok")
    /\ UNCHANGED <<height, base, cfg, activity, bridge, runs, started, crashes,
                   crashStart, lastScanEnd>>
    /\ UNCHANGED <<sched, clock, ticks, ethPriceCache, priceCalls, priceStarted, lastGood,
                   daily, weekly, tvl>>

\* await TvlCollection.insertAsync({ timestamp: noon of day i, tvlInETH and
\* tvlInUSD of currentTvl }); snapshotsCreated++; a throw returns 0
BackfillTvlStore ==
    /\ job.pc = "tvlStore"
    /\ \E out \in JobOutcomes("ok", {"throw"}) :
         LET doc == TvlDoc(DaysBefore(job.now, job.i) + NOON_MS, job.eth, job.usd,
                           clock, tvl)
             j == [job EXCEPT !.created = @ + 1, !.i = @ + 1, !.snaps = Append(@, doc)]
         IN  /\ tvl' = IF out = "ok" THEN Insert(tvl, doc) ELSE tvl
             /\ job' = IF out = "ok" THEN BackfillTvlLoop(j) ELSE JobFails(job)
             /\ Count(out, "ok")
    /\ UNCHANGED <<height, base, cfg, activity, bridge, runs, started, crashes,
                   crashStart, lastScanEnd>>
    /\ UNCHANGED <<sched, clock, ticks, ethPriceCache, priceCalls, priceStarted, lastGood,
                   daily, weekly>>

----------------------------------------------------------------------------
(* The scheduler: Meteor.startup and startScheduledJobs *)

MaxFires == 3           \* firings of the timers in one behaviour

\* the six setInterval timers, by the job their callback awaits
Timers ==
    {"calculateTVL", "calculateBridgeActivityFromTransactions", "calculateBridgeVolume",
     "calculate24hTransactions", "updateDailyTransactionCount",
     "updateWeeklyActiveAddresses"}

\* how the awaited job of a callback ends. calculateTVL, the two bridge
\* calculations and updateDailyTransactionCount catch every failure themselves;
\* kpis.js exports no calculate24hTransactions, so calling the imported name
\* throws a TypeError; updateWeeklyActiveAddresses awaits getWeeklyActiveAddresses
\* inside its own catch block, whose fallback query may throw
ScheduledOutcomes(t) ==
    CASE t = "calculate24hTransactions" -> {"throws"}
      [] t = "updateWeeklyActiveAddresses" -> {"returns", "throws"}
      [] OTHER -> {"returns"}

\* boot: the statement Meteor.startup / startScheduledJobs stands at; done: the
\* startup stages that have finished or failed; timers: setInterval has been
\* called; inflight: the callbacks of each timer that have not returned;
\* history: fired counts the firings, caught holds the timers one of whose
\* callbacks caught an exception, escaped counts the exceptions that left a
\* callback, afterCatch holds the timers that fired after an exception was caught
IdleSched ==
    [boot |-> "network", done |-> {}, timers |-> FALSE,
     inflight |-> [t \in Timers |-> 0], fired |-> 0, caught |-> {}, escaped |-> 0,
     afterCatch |-> {}]

\* what an action of the scheduler leaves alone
SchedFrame ==
    /\ UNCHANGED scanVars
    /\ UNCHANGED <<clock, ticks, ethPriceCache, priceCalls, priceStarted, lastGood,
                   daily, weekly, tvl, job>>

\* the stage after one of the first three try blocks of Meteor.startup
AfterStage(stage) ==
    CASE stage = "network" -> "kpi"
      [] stage = "kpi" -> "history"
      [] stage = "history" -> "backfill"

\* Meteor.startup: try { await getNetworkInfo() }, try { await
\* updateDailyTransactionCount(); await updateTVL() }, try { the snapshot
\* backfills }: each stage is awaited, and goes on to the next one whether it
\* finished or its catch block ran
StartupStage ==
    /\ sched.boot \in {"network", "kpi", "history"}
    /\ \E out \in {"finished", "failed"} :
         sched' = [sched EXCEPT !.boot = AfterStage(sched.boot),
                                !.done = @ \cup {sched.boot}]
    /\ SchedFrame

\* try { await backfillBridgeActivity() }: the call
StartupBackfill(s) ==
    /\ sched.boot = "backfill"
    /\ started = 0
    /\ CallBackfill(s)

\* faulty variant of BackfillAwaited: the backfill is not awaited
BackfillNotAwaited == TRUE

\* await backfillBridgeActivity(): the promise is settled, returned or thrown
BackfillAwaited == \A s \in Slots : runs[s].kind = "bf" => Free(runs[s])

\* the await of backfillBridgeActivity is over: await startScheduledJobs()
BackfillReturns ==
    /\ sched.boot = "backfill"
    /\ started > 0
    /\ BackfillAwaited
    /\ sched' = [sched EXCEPT !.boot = "initial", !.done = @ \cup {"backfill"}]
    /\ SchedFrame

\* startScheduledJobs: try { await Promise.all([...]) } catch { log }
InitialUpdates ==
    /\ sched.boot = "initial"
    /\ \E out \in {"finished", "failed"} :
         sched' = [sched EXCEPT !.boot = "register", !.done = @ \cup {"initial"}]
    /\ SchedFrame

\* the six setInterval calls
RegisterTimers ==
    /\ sched.boot = "register"
    /\ sched' = [sched EXCEPT !.boot = "timers", !.timers = TRUE]
    /\ SchedFrame

\* a timer fires: its callback starts and awaits its job; setInterval does not
\* wait for the callbacks before
Fire(t) ==
    /\ sched.timers
    /\ sched.fired < MaxFires
    /\ sched' = [sched EXCEPT !.inflight[t] = @ + 1, !.fired = @ + 1,
                              !.afterCatch = IF sched.caught # {} THEN @ \cup {t} ELSE @]
    /\ SchedFrame

\* faulty variant of Catch: the callback has no try around its await
CatchMissing(sc, t) == [sc EXCEPT !.inflight[t] = @ - 1, !.escaped = @ + 1]

\* catch (error) { console.error(..., error.message) }
Catch(sc, t) == [sc EXCEPT !.inflight[t] = @ - 1, !.caught = @ \cup {t}]

\* the job a callback awaits returns or throws, and the callback ends
TimerCallback(t) ==
    /\ sched.inflight[t] > 0
    /\ \E out \in ScheduledOutcomes(t) :
         sched' = IF out = "throws" THEN Catch(sched, t)
                  ELSE [sched EXCEPT !.inflight[t] = @ - 1]
    /\ SchedFrame

\* the 15-minute timer fires and its job starts processNewBlocks
TimerScan(s) ==
    /\ sched.timers
    /\ Free(runs[s])
    /\ TimerFire(s)

----------------------------------------------------------------------------
(* Specifications *)

Configs ==
    {[enabled |-> FALSE, blockCount |-> -1], [enabled |-> TRUE, blockCount |-> 0],
     [enabled |-> TRUE, blockCount |-> -1], [enabled |-> TRUE, blockCount |-> 3]}

\* no KPI operation has run: the clock stands at the start of the process
KpiIdle ==
    /\ clock = ClockStart
    /\ ticks = 0
    /\ ethPriceCache = EmptyCache
    /\ priceCalls = [p \in PriceSlots |-> IdlePrice]
    /\ priceStarted = 0
    /\ lastGood = [price |-> Null, at |-> 0]
    /\ daily = EmptyBag
    /\ weekly = EmptyBag
    /\ tvl = EmptyBag
    /\ sched = IdleSched
    /\ job = IdleJob

InitWith(bases) ==
    /\ base \in bases
    /\ height = base + 3
    /\ cfg \in Configs
    /\ activity = EmptyBag
    /\ bridge = EmptyBag
    /\ runs = [s \in Slots |-> IdleRun]
    /\ started = 0
    /\ crashes = 0
    /\ faults = 0
    /\ crashStart = None
    /\ lastScanEnd = None
    /\ KpiIdle

ScanStep(s) ==
    \/ ReadHeight(s)
    \/ ReadCursor(s)
    \/ FetchBlock(s)
    \/ FetchTx(s)
    \/ Deposit(s)
    \/ DepositInsert(s)
    \/ Withdrawal(s)
    \/ WithdrawalInsert(s)

\* no scan is in flight
Quiet == \A s \in Slots : Free(runs[s])

\* the scans run one at a time: a trigger arrives when no scan is in flight
Init == InitWith({0, LOOKBACK})

Next ==
    \/ \E s \in Slots : Quiet /\ TimerFire(s)
    \/ \E s \in Slots : Quiet /\ CallBackfill(s)
    \/ \E s \in Slots : ScanStep(s)
    \/ ChainGrow
    \/ Crash

Spec == Init /\ [][Next]_vars

\* triggers arrive whenever they like: nothing in the code holds one back
InitOverlap == InitWith({0})

NextOverlap ==
    \/ \E s \in Slots : Free(runs[s]) /\ TimerFire(s)
    \/ \E s \in Slots : Free(runs[s]) /\ CallBackfill(s)
    \/ \E s \in Slots : ScanStep(s)
    \/ ChainGrow
    \/ Crash

SpecOverlap == InitOverlap /\ [][NextOverlap]_vars

\* a chain whose block 0 holds transactions; a scan may be triggered while
\* the scan before it is in flight
InitStamp == InitWith({-1})

NextStamp ==
    \/ \E s \in Slots : Free(runs[s]) /\ TimerFire(s)
    \/ \E s \in Slots : Free(runs[s]) /\ CallBackfill(s)
    \/ \E s \in Slots : ScanStep(s)

SpecStamp == InitStamp /\ [][NextStamp]_vars

\* the scans while the chain grows: every awaited call of a scan in flight
\* returns or throws in the end
InitGrow == InitWith({0})

NextGrow ==
    \/ \E s \in Slots : Quiet /\ TimerFire(s)
    \/ \E s \in Slots : Quiet /\ CallBackfill(s)
    \/ \E s \in Slots : ScanStep(s)
    \/ ChainGrow

SpecGrow == InitGrow /\ [][NextGrow]_vars /\ \A s \in Slots : WF_vars(ScanStep(s))

\* the timers and their callbacks, from the call of startScheduledJobs
InitSched ==
    /\ base = 0
    /\ height = 3
    /\ cfg = [enabled |-> FALSE, blockCount |-> -1]
    /\ activity = EmptyBag
    /\ bridge = EmptyBag
    /\ runs = [s \in Slots |-> IdleRun]
    /\ started = 0
    /\ crashes = 0
    /\ faults = 0
    /\ crashStart = None
    /\ lastScanEnd = None
    /\ clock = ClockStart
    /\ ticks = 0
    /\ ethPriceCache = EmptyCache
    /\ priceCalls = [p \in PriceSlots |-> IdlePrice]
    /\ priceStarted = 0
    /\ lastGood = [price |-> Null, at |-> 0]
    /\ daily = EmptyBag
    /\ weekly = EmptyBag
    /\ tvl = EmptyBag
    /\ job = IdleJob
    /\ sched = [IdleSched EXCEPT !.boot = "initial",
                                 !.done = {"network", "kpi", "history", "backfill"}]

NextSched ==
    \/ InitialUpdates
    \/ RegisterTimers
    \/ \E t \in Timers : Fire(t)
    \/ \E t \in Timers : TimerCallback(t)

SpecSched == InitSched /\ [][NextSched]_vars

\* Meteor.startup with the scans it and the 15-minute timer start
InitBoot == InitWith({0})

NextBoot ==
    \/ StartupStage
    \/ \E s \in Slots : StartupBackfill(s)
    \/ BackfillReturns
    \/ InitialUpdates
    \/ RegisterTimers
    \/ \E s \in Slots : TimerScan(s)
    \/ \E s \in Slots : ScanStep(s)
    \/ ChainGrow

SpecBoot == InitBoot /\ [][NextBoot]_vars

\* the price feed on its own: calls of getEthPrice arrive at any time, also while
\* another one awaits the upstream, and the clock advances between the steps
InitPrice ==
    /\ base = 0
    /\ height = 3
    /\ cfg = [enabled |-> FALSE, blockCount |-> -1]
    /\ activity = EmptyBag
    /\ bridge = EmptyBag
    /\ runs = [s \in Slots |-> IdleRun]
    /\ started = 0
    /\ crashes = 0
    /\ faults = 0
    /\ crashStart = None
    /\ lastScanEnd = None
    /\ KpiIdle

NextPrice ==
    \/ \E p \in PriceSlots : PriceCall(p)
    \/ \E p \in PriceSlots : PriceFetch(p)
    \/ Tick

SpecPrice == InitPrice /\ [][NextPrice]_vars

\* the KPI operations over what the scans have stored: documents arrive in the
\* activity collection at any time, the operations are called one after another
InitKpi ==
    /\ base = 0
    /\ height = 3
    /\ cfg = [enabled |-> FALSE, blockCount |-> -1]
    /\ activity = EmptyBag
    /\ bridge = EmptyBag
    /\ runs = [s \in Slots |-> IdleRun]
    /\ started = 0
    /\ crashes = 0
    /\ faults = 0
    /\ crashStart = None
    /\ lastScanEnd = None
    /\ clock \in KpiClocks
    /\ ticks = 0
    /\ ethPriceCache = EmptyCache
    /\ priceCalls = [p \in PriceSlots |-> IdlePrice]
    /\ priceStarted = 0
    /\ lastGood = [price |-> Null, at |-> 0]
    /\ daily = EmptyBag
    /\ weekly = EmptyBag
    /\ tvl = EmptyBag
    /\ sched = IdleSched
    /\ job = IdleJob

NextKpi ==
    \/ StoreActivity
    \/ CalcWeekly
    \/ BackfillHistory("backfillDailyTransactionHistory")
    \/ BackfillHistory("backfillWeeklyActiveAddressHistory")
    \/ BackfillCount
    \/ BackfillInsert

SpecKpi == InitKpi /\ [][NextKpi]_vars

\* the operations that may throw, over the bridge documents the scans have
\* stored; the operations are called one after another
InitOps ==
    /\ InitKpi
    /\ clock = Today + 1000

NextOps ==
    \/ StoreBridge
    \/ TodayCall
    \/ TodayCalc
    \/ TodayInsert
    \/ TodayFallback
    \/ \E op \in ExplorerOps : ExplorerCall(op)
    \/ AmountsCall
    \/ AmountsLookup
    \/ AmountsUpdate

SpecOps == InitOps /\ [][NextOps]_vars

\* Date.now() when the daily count is asked for: early and late in the day,
\* and in the last second of the day before
TodayClocks == KpiClocks \cup {Today - 1000}

\* the daily count over what the scans have stored
InitToday ==
    /\ base = 0
    /\ height = 3
    /\ cfg = [enabled |-> FALSE, blockCount |-> -1]
    /\ activity = EmptyBag
    /\ bridge = EmptyBag
    /\ runs = [s \in Slots |-> IdleRun]
    /\ started = 0
    /\ crashes = 0
    /\ faults = 0
    /\ crashStart = None
    /\ lastScanEnd = None
    /\ clock \in TodayClocks
    /\ ticks = 0
    /\ ethPriceCache = EmptyCache
    /\ priceCalls = [p \in PriceSlots |-> IdlePrice]
    /\ priceStarted = 0
    /\ lastGood = [price |-> Null, at |-> 0]
    /\ daily = EmptyBag
    /\ weekly = EmptyBag
    /\ tvl = EmptyBag
    /\ sched = IdleSched
    /\ job = IdleJob

NextToday ==
    \/ StoreActivity
    \/ CalcDaily
    \/ TodayCall
    \/ TodayCalc
    \/ TodayInsert
    \/ TodayFallback

SpecToday == InitToday /\ [][NextToday]_vars

\* what the scans have stored before the first weekly aggregation is asked
\* for: nothing, or some of these documents
EarlierActivity ==
    {[address |-> "0xbb", timestamp |-> Today, blockNumber |-> 1],
     [address |-> "0xbb", timestamp |-> Today - 1, blockNumber |-> 1],
     [address |-> "0xaa", timestamp |-> Today, blockNumber |-> 1],
     [address |-> "0x64", timestamp |-> Today, blockNumber |-> 1]}

\* the two weekly aggregations over what the scans have stored
InitWeek ==
    /\ base = 0
    /\ height = 3
    /\ cfg = [enabled |-> FALSE, blockCount |-> -1]
    /\ activity \in {SetToBag(docs) : docs \in SUBSET EarlierActivity}
    /\ bridge = EmptyBag
    /\ runs = [s \in Slots |-> IdleRun]
    /\ started = 0
    /\ crashes = 0
    /\ faults = 0
    /\ crashStart = None
    /\ lastScanEnd = None
    /\ clock \in KpiClocks
    /\ ticks = 0
    /\ ethPriceCache = EmptyCache
    /\ priceCalls = [p \in PriceSlots |-> IdlePrice]
    /\ priceStarted = 0
    /\ lastGood = [price |-> Null, at |-> 0]
    /\ daily = EmptyBag
    /\ weekly = EmptyBag
    /\ tvl = EmptyBag
    /\ sched = IdleSched
    /\ job = IdleJob

NextWeek ==
    \/ StoreActivity
    \/ CalcWeekly
    \/ AddressDetails

SpecWeek == InitWeek /\ [][NextWeek]_vars

\* the TVL operations, called one after another, five minutes apart
InitTvl ==
    /\ base = 0
    /\ height = 3
    /\ cfg \in TvlConfigs
    /\ activity = EmptyBag
    /\ bridge = EmptyBag
    /\ runs = [s \in Slots |-> IdleRun]
    /\ started = 0
    /\ crashes = 0
    /\ faults = 0
    /\ crashStart = None
    /\ lastScanEnd = None
    /\ clock \in KpiClocks
    /\ ticks = 0
    /\ ethPriceCache = EmptyCache
    /\ priceCalls = [p \in PriceSlots |-> IdlePrice]
    /\ priceStarted = 0
    /\ lastGood = [price |-> Null, at |-> 0]
    /\ daily = EmptyBag
    /\ weekly = EmptyBag
    /\ tvl = EmptyBag
    /\ sched = IdleSched
    /\ job = IdleJob

NextTvl ==
    \/ job.n < MaxTvlJobs /\ UpdateTvlCall
    \/ \E op \in {"getTVL", "calculateTVL"} : job.n < MaxTvlJobs /\ TvlRead(op)
    \/ job.n < MaxTvlJobs /\ BackfillTvlCall
    \/ TvlBalance
    \/ TvlPrice
    \/ TvlStore
    \/ TvlGet
    \/ BackfillTvlStore
    \/ Later

SpecTvl == InitTvl /\ [][NextTvl]_vars

\* what getTodayTransactions, getWeeklyActiveAddresses and updateTVL stored when
\* they ran the day before, over an empty activity collection
OldSnapshot ==
    [date |-> Today - DAY_MS, count |-> 0, timestamp |-> Today - DAY_MS + 1000,
     updatedAt |-> Today - DAY_MS + 1000]

OldTvl == TvlDoc(Today - DAY_MS + 1000, 5, 5 * 3200, Today - DAY_MS + 1000, EmptyBag)

\* every operation that writes a snapshot, over collections that are empty or
\* hold the snapshot of the day before
InitSnap ==
    /\ base = 0
    /\ height = 3
    /\ cfg \in TvlConfigs
    /\ activity = EmptyBag
    /\ bridge = EmptyBag
    /\ runs = [s \in Slots |-> IdleRun]
    /\ started = 0
    /\ crashes = 0
    /\ faults = 0
    /\ crashStart = None
    /\ lastScanEnd = None
    /\ clock \in KpiClocks
    /\ ticks = 0
    /\ ethPriceCache = EmptyCache
    /\ priceCalls = [p \in PriceSlots |-> IdlePrice]
    /\ priceStarted = 0
    /\ lastGood = [price |-> Null, at |-> 0]
    /\ daily \in {EmptyBag, SetToBag({OldSnapshot})}
    /\ weekly \in {EmptyBag, SetToBag({OldSnapshot})}
    /\ tvl \in {EmptyBag, SetToBag({OldTvl})}
    /\ sched = IdleSched
    /\ job = IdleJob

NextSnap ==
    \/ job.n < MaxJobs /\ UpdateTvlCall
    \/ job.n < MaxJobs /\ BackfillTvlCall
    \/ TvlBalance
    \/ TvlPrice
    \/ TvlStore
    \/ TvlGet
    \/ BackfillTvlStore
    \/ Later
    \/ TodayCall
    \/ TodayCalc
    \/ TodayInsert
    \/ TodayFallback
    \/ WeeklyCall
    \/ WeeklyCalc
    \/ WeeklyStore
    \/ WeeklyFallback
    \/ BackfillHistory("backfillDailyTransactionHistory")
    \/ BackfillHistory("backfillWeeklyActiveAddressHistory")
    \/ BackfillCount
    \/ BackfillInsert

SpecSnap == InitSnap /\ [][NextSnap]_vars

----------------------------------------------------------------------------
(* Properties *)

\* the transaction's sender has an activity document at the transaction's block
HasActivity(t) ==
    \E d \in BagToSet(activity) :
        d.address = toLowerCase(TxInfo(t).from) /\ d.blockNumber = TxBlock(t)

\* number of bridge documents carrying txHash t
BridgeDocs(t) == {d \in BagToSet(bridge) : d.txHash = t}

\* C1: after any sequence of scans run one at a time, the bridge collection
\* holds at most one document for each txHash.
C1_UniqueTxHash ==
    \A t \in Tx :
        /\ Cardinality(BridgeDocs(t)) <= 1
        /\ \A d \in BridgeDocs(t) : CopiesIn(d, bridge) <= 1

\* C2: one pass writes, for the transaction it is at, at most one activity
\* document and at most one bridge document; for a transaction that carries the
\* deposit type and is also a value transfer to ArbSys, that one document is a
\* deposit (as long as no call has failed).
C2_OnePerTx ==
    \A s \in Slots :
        LET r == runs[s]
        IN  /\ r.nAct <= 1
            /\ r.nDep + r.nWd <= 1
            /\ (r.tx \in Tx /\ IsDeposit(r.tx) /\ IsWithdrawal(r.tx) /\ faults = 0
                     /\ r.nDep + r.nWd >= 1)
                  => (r.nDep = 1 /\ r.nWd = 0)

\* C3: once a resuming scan was cut by a crash and a later processNewBlocks has
\* run to its end, with no call having failed, every transaction of the blocks
\* from the cut scan's start to the later scan's end has its activity document.
C3_NoGapAfterCrash ==
    \A s \in Slots :
        (/\ crashStart # None
         /\ faults = 0
         /\ runs[s].kind = "pnb"
         /\ runs[s].pc = "done")
        => \A t \in Tx :
               TxBlock(t) \in crashStart..runs[s].endBlock => HasActivity(t)

\* C4: the resume point, the highest blockNumber of the activity collection
\* (None while it is empty), never decreases.
C4_CursorMonotone == [][LastProcessed(activity') >= LastProcessed(activity)]_vars

\* C4 witness: a backfill over the last N blocks has just written an activity
\* document for a block below the resume point.
C4_Witness ==
    \E s \in Slots :
        /\ runs[s].kind = "bf"
        /\ Scanning(runs[s])
        /\ runs[s].nAct = 1
        /\ runs[s].i < LastProcessed(activity)

\* C5: a scan that passes a block without transactions writes no document and
\* leaves the resume point at that block or beyond it.
C5_EmptyBlockAdvances ==
    [][\A s \in Slots :
          (/\ runs[s].pc = "block"
           /\ BlockTxs(runs[s].i) = <<>>
           /\ runs'[s].kind = runs[s].kind
           /\ runs'[s].pc \in {"block", "done"}
           /\ runs'[s].i = runs[s].i + 1)
          => (/\ activity' = activity
              /\ bridge' = bridge
              /\ LastProcessed(activity') >= runs[s].i)]_vars

\* C6: a processNewBlocks scan starts beyond the last block of the
\* processNewBlocks scan completed before it.
C6_NextScanStartsAfterEnd ==
    \A s \in Slots :
        (runs[s].kind = "pnb" /\ Scanning(runs[s]) /\ lastScanEnd # None)
        => runs[s].startBlock > lastScanEnd

\* C7: at no time are two invocations of the same scan in flight.
C7_OneRunPerJob ==
    \A kind \in {"pnb", "bf"} :
        Cardinality({s \in Slots : InFlight(runs[s]) /\ runs[s].kind = kind}) <= 1

\* C8: whatever fails while a scan is at a transaction, the scan is not aborted
\* and goes on with the same transaction or the very next one (the first position
\* of the next block after the last transaction of a block); it ends only past
\* the last block of its range, returning the number of blocks of the range.
C8_TxFailureSkipsOnlyTx ==
    [][\A s \in Slots :
          (/\ runs[s].pc \in {"tx", "dep", "depIns", "wd", "wdIns"}
           /\ runs'[s] # runs[s]
           /\ crashes' = crashes)
          => (/\ runs'[s].pc # "aborted"
              /\ \/ /\ runs'[s].i = runs[s].i
                    /\ runs'[s].k = runs[s].k
                    /\ runs'[s].pc \in {"dep", "depIns", "wd", "wdIns"}
                 \/ /\ runs'[s].i = runs[s].i
                    /\ runs'[s].k = runs[s].k + 1
                    /\ runs[s].k < Len(BlockTxs(runs[s].i))
                    /\ runs'[s].pc = "tx"
                 \/ /\ runs'[s].i = runs[s].i + 1
                    /\ runs[s].k = Len(BlockTxs(runs[s].i))
                    /\ \/ runs'[s].pc = "block" /\ runs'[s].i <= runs[s].endBlock
                       \/ /\ runs'[s].pc = "done"
                          /\ runs'[s].i = runs[s].endBlock + 1
                          /\ runs'[s].ret = runs[s].endBlock - runs[s].startBlock + 1)]_vars

\* C8 witness: a scan over the whole chain has ended; the fetch of the first
\* transaction of block 1 failed, the second transaction of that block and the
\* transaction of block 3 have their documents.
C8_Witness ==
    \E s \in Slots :
        /\ runs[s].pc = "done"
        /\ runs[s].startBlock <= TxBlock("t1")
        /\ runs[s].endBlock >= TxBlock("t3")
        /\ faults > 0
        /\ crashes = 0
        /\ started = 1
        /\ ~HasActivity("t1")
        /\ HasActivity("t2")
        /\ HasActivity("t3")

\* C9: a failing block fetch never aborts a scan.
C9_BlockFailureSkips == \A s \in Slots : runs[s].err # "block"

\* C10: processNewBlocks reads the height once and the resume point once, scans
\* from resume point + 1 (from max(0, height - 100) on an empty collection) up
\* to the height it read, and with start > end fetches and writes nothing and
\* returns 0.
C10_StartAndRange ==
    /\ [][\A s \in Slots :
            /\ (runs[s].kind = "pnb" /\ runs[s].pc = "height" /\ runs'[s].pc = "cursor")
                  => runs'[s].endBlock = height
            /\ (runs[s].kind = "pnb" /\ runs[s].pc = "cursor"
                    /\ runs'[s].pc \in {"block", "done"})
                  => LET last == LastProcessed(activity)
                         end == runs[s].endBlock
                         start == IF last = None THEN Max(0, end - 100) ELSE last + 1
                     IN  /\ runs'[s].startBlock = start
                         /\ runs'[s].endBlock = end
                         /\ start <= end => (runs'[s].pc = "block" /\ runs'[s].i = start)
                         /\ start > end => (/\ runs'[s].pc = "done"
                                            /\ runs'[s].ret = 0
                                            /\ activity' = activity
                                            /\ bridge' = bridge)
            /\ (runs[s].kind = "pnb" /\ Scanning(runs[s]) /\ runs'[s].kind = "pnb")
                  => (/\ runs'[s].endBlock = runs[s].endBlock
                      /\ runs'[s].startBlock = runs[s].startBlock
                      /\ runs'[s].i \in {runs[s].i, runs[s].i + 1})]_vars
    /\ [](\A s \in Slots :
            (runs[s].kind = "pnb" /\ Scanning(runs[s]))
            => runs[s].i \in runs[s].startBlock..runs[s].endBlock)

\* C10 witness: on the chain longer than the look-back window, a first
\* processNewBlocks has scanned from height - 100 and a second one, triggered at
\* the same height, has found start > end and returned 0.
C10_Witness ==
    \E s \in Slots :
        /\ base = LOOKBACK
        /\ started = 2
        /\ crashes = 0
        /\ runs[s].kind = "pnb"
        /\ runs[s].pc = "done"
        /\ runs[s].ret = 0
        /\ runs[s].lastActivity # None
        /\ runs[s].startBlock > runs[s].endBlock
        /\ lastScanEnd = runs[s].endBlock

\* C11: every getEthPrice call that has returned has returned a positive number,
\* whatever the cache held and whatever the upstream answered; no call ends in
\* any other way.
C11_PriceAlwaysPositive ==
    \A p \in PriceSlots :
        /\ priceCalls[p].pc \in {"idle", "fetch", "done"}
        /\ priceCalls[p].pc = "done" => priceCalls[p].ret > 0

\* C11 witness: with nothing ever fetched, a call whose request failed has
\* returned, and so has a call that ran into a failing request on an expired cache.
C11_Witness ==
    \E p, q \in PriceSlots :
        /\ priceCalls[p].pc = "done" /\ priceCalls[p].failed
        /\ priceCalls[p].seen.price = Null
        /\ priceCalls[q].pc = "done" /\ priceCalls[q].failed
        /\ priceCalls[q].seen.price # Null

\* C12: a call that begins while the last successful request is less than 5
\* minutes old returns that price and makes no upstream request; a call that
\* begins otherwise makes one; no call makes more than one.
C12_FreshCacheNoFetch ==
    \A p \in PriceSlots :
        LET c == priceCalls[p]
            fresh == c.seen.price # Null /\ c.now - c.seen.at < 5 * 60 * 1000
        IN  c.pc # "idle" =>
              /\ c.fetches <= 1
              /\ fresh => (c.pc = "done" /\ c.fetches = 0 /\ c.ret = c.seen.price)
              /\ ~fresh => (c.pc = "fetch" \/ c.fetches = 1)

\* C12 witness: a call has answered, without a request, from a price one
\* millisecond short of 5 minutes old.
C12_Witness ==
    \E p \in PriceSlots :
        /\ priceCalls[p].pc = "done" /\ priceCalls[p].fetches = 0
        /\ priceCalls[p].ret = 3500
        /\ priceCalls[p].now - priceCalls[p].seen.at = 5 * 60 * 1000 - 1

\* C13: a call whose upstream request failed returns the price of the last
\* successful request, whatever its age, and 3000 if no request ever succeeded.
C13_StaleBeforeDefault ==
    \A p \in PriceSlots :
        LET c == priceCalls[p]
        IN  (c.pc = "done" /\ c.failed) =>
              c.ret = IF c.stale # Null THEN c.stale ELSE 3000

\* C13 witness: a failed request was answered with a price older than 5 minutes.
C13_Witness ==
    \E p \in PriceSlots :
        /\ priceCalls[p].pc = "done" /\ priceCalls[p].failed
        /\ priceCalls[p].stale = 3200
        /\ priceCalls[p].ret = 3200
        /\ priceCalls[p].now - lastGood.at > 5 * 60 * 1000

\* the addresses with a stored event in [since, before) that are not system addresses
ActiveBetween(since, before) ==
    {a \in {d.address : d \in BagToSet(activity)} \ SYSTEM_ADDRESSES :
        \E d \in BagToSet(activity) :
            d.address = a /\ d.timestamp >= since /\ d.timestamp < before}

\* some stored event falls on the calendar day that begins at `date`
ActivityOn(date) ==
    \E d \in BagToSet(activity) :
        d.timestamp >= date /\ d.timestamp < date + 24 * 60 * 60 * 1000

\* a KPI operation returns in this step without a failed database call
Returns(op) == job' # job /\ job'.pc = "done" /\ job'.op = op /\ ~job'.failed

\* C14: when its query succeeds, calculateWeeklyActiveAddresses returns the
\* number of distinct addresses that are no system address and have an event
\* with timestamp >= now - 7 days; an address with older events only is left out.
C14_WeeklyDistinctInWindow ==
    [][(job' # job /\ job'.op = "calculateWeeklyActiveAddresses" /\ ~job'.failed)
         => /\ job'.pc = "done"
            /\ job'.ret = Cardinality(ActiveBetween(clock - 7 * 24 * 60 * 60 * 1000,
                                                    Forever))]_vars

\* C14 witness: calculateWeeklyActiveAddresses has returned 1 with two sender
\* addresses stored, one active exactly 7 days ago, the other a millisecond earlier.
C14_Witness ==
    /\ job.op = "calculateWeeklyActiveAddresses" /\ job.pc = "done" /\ ~job.failed
    /\ job.ret = 1
    /\ job.now = clock
    /\ \E d, e \in BagToSet(activity) :
         /\ d.address # e.address
         /\ {d.address, e.address} \cap SYSTEM_ADDRESSES = {}
         /\ d.timestamp = clock - 7 * 24 * 60 * 60 * 1000
         /\ e.timestamp = clock - 7 * 24 * 60 * 60 * 1000 - 1

\* C15: storing one more copy of a stored activity document leaves the weekly
\* active address count as it was.
C15_DuplicatesDoNotCount ==
    [][(\E d \in BagToSet(activity) : activity' = Insert(activity, d))
         => WeeklyActive(activity', clock') = WeeklyActive(activity, clock)]_vars

\* C15 witness: a document of the window is stored twice and the count is 1.
C15_Witness ==
    /\ \E d \in BagToSet(activity) :
         /\ CopiesIn(d, activity) = 2
         /\ d.address \notin SYSTEM_ADDRESSES
         /\ d.timestamp >= clock - WEEK_MS
    /\ job.op = "calculateWeeklyActiveAddresses" /\ job.pc = "done" /\ ~job.failed
    /\ job.ret = 1
    /\ WeeklyActive(activity, clock) = 1

\* the activity documents stored for transaction t (its sender at its block)
ActivityDocs(t) ==
    {d \in BagToSet(activity) :
        d.address = toLowerCase(TxInfo(t).from) /\ d.blockNumber = TxBlock(t)}

\* C16: after any sequence of processNewBlocks and backfill scans, the activity
\* collection holds at most one document for each transaction.
C16_OneActivityPerTx ==
    \A t \in Tx :
        /\ Cardinality(ActivityDocs(t)) <= 1
        /\ \A d \in ActivityDocs(t) : CopiesIn(d, activity) <= 1

\* C17: a scan that has reached the deposit branch of a transaction writes its
\* deposit document whether the receipt fetch fails or not, and when the amount
\* lookup fails the document it writes carries the value 0.
C17_DepositDespiteLookupFailure ==
    [][\A s \in Slots :
          LET r == runs[s]
          IN  (runs'[s] # r /\ crashes' = crashes) =>
                /\ (r.kind = "pnb" /\ r.pc = "dep") => runs'[s].pc = "depIns"
                /\ (r.pc = "depIns" /\ bridge' # bridge /\ faults' # faults)
                     => bridge' = Insert(bridge, DepositDoc(r.tx, r.i, r.blockTimestamp, 0))]_vars

\* the calendar day k - 1 days before the day of t
DayBack(t, k) == (t \div (24 * 60 * 60 * 1000) - (k - 1)) * 24 * 60 * 60 * 1000

\* a snapshot backfill returns N after storing N snapshots, the k-th of them for
\* the day k - 1 days back
OnePerDay(j, coll) ==
    /\ j.ret = j.days
    /\ Len(j.snaps) = j.days
    /\ \A k \in 1..j.days :
         /\ j.snaps[k].date = DayBack(j.now, k)
         /\ j.snaps[k] \in BagToSet(coll)

C19_NoOperationThrows == job.pc # "threw"

\* the deposit documents with value 0, as a bag
ZeroDeposits ==
    [d \in {e \in BagToSet(bridge) : e.type = "deposit" /\ e.value = 0}
        |-> CopiesIn(d, bridge)]

\* the documents of a sequence, as a bag
RECURSIVE SeqToBag(_)
SeqToBag(seq) ==
    IF seq = <<>> THEN EmptyBag ELSE SetToBag({Head(seq)}) (+) SeqToBag(Tail(seq))

\* a run of backfillDepositAmounts looks every deposit that had value 0 at its
\* start up exactly once
LooksEachUpOnce ==
    /\ (job'.op = "backfillDepositAmounts" /\ job'.n # job.n /\ ~job'.failed)
          => SeqToBag(job'.todo) = ZeroDeposits
    /\ Returns("backfillDepositAmounts")
          => [k \in 1..Len(job'.looked) |-> job'.looked[k].doc] = job'.todo

\* C20 as claimed: one lookup for each deposit that had value 0 at the start;
\* updated counts the deposits whose lookup returned an amount > 0, errors the
\* others, and the two add up to the number of these deposits.
C20_UpdatedIffAmountFound ==
    [][/\ LooksEachUpOnce
       /\ Returns("backfillDepositAmounts") =>
            LET l == job'.looked
            IN  /\ job'.updated = Cardinality({k \in 1..Len(l) : l[k].amount > 0})
                /\ job'.errors = Cardinality({k \in 1..Len(l) : ~(l[k].amount > 0)})
                /\ job'.updated + job'.errors = Len(job'.todo)]_vars

\* C20 amended: updated counts the deposits whose lookup returned an amount > 0
\* and whose update was stored, errors all the others.
C20_UpdatedIffStored ==
    [][/\ LooksEachUpOnce
       /\ Returns("backfillDepositAmounts") =>
            LET l == job'.looked
            IN  /\ job'.updated =
                     Cardinality({k \in 1..Len(l) : l[k].amount > 0 /\ l[k].stored})
                /\ job'.errors =
                     Cardinality({k \in 1..Len(l) : ~(l[k].amount > 0 /\ l[k].stored)})
                /\ job'.updated + job'.errors = Len(job'.todo)
                /\ \A k \in 1..Len(l) : l[k].stored => l[k].amount > 0]_vars

\* C20 witness: a run over two deposits with value 0 has returned with one of
\* them updated and the other, for which no amount was found, counted as an error.
C20_Witness ==
    /\ job.op = "backfillDepositAmounts" /\ job.pc = "done" /\ ~job.failed
    /\ job.total = 2 /\ job.updated = 1 /\ job.errors = 1
    /\ \E k \in 1..2 : job.looked[k].amount = 0
    /\ \E d \in BagToSet(bridge) : d.type = "deposit" /\ d.value > 0
    /\ \E d \in BagToSet(bridge) : d.type = "deposit" /\ d.value = 0

\* every document of a collection is still there, in as many copies
Kept(before, after) ==
    \A d \in BagToSet(before) : CopiesIn(d, after) >= CopiesIn(d, before)

\* one copy of a deposit document with value 0 gets a positive value; nothing
\* else of the bridge collection changes
SetsZeroDeposit ==
    \E d \in BagToSet(bridge), e \in BagToSet(bridge') :
        /\ d.type = "deposit" /\ d.value = 0
        /\ e.value > 0
        /\ e = [d EXCEPT !.value = e.value]
        /\ bridge' = (bridge (-) SetToBag({d})) (+) SetToBag({e})

\* C21: no step removes or changes a stored activity or bridge document, except
\* a step of backfillDepositAmounts that gives one deposit document with value
\* 0 a positive value; a document with a positive value stays as it is.
C21_EventsImmutable ==
    [][/\ Kept(activity, activity')
       /\ \/ Kept(bridge, bridge')
          \/ job.op = "backfillDepositAmounts" /\ job.pc = "update" /\ SetsZeroDeposit]_vars

\* C21 witness: backfillDepositAmounts has stored the amount it found for a
\* deposit that had value 0, beside a withdrawal document that is as it was.
C21_Witness ==
    /\ job.op = "backfillDepositAmounts" /\ job.updated = 1
    /\ \E k \in 1..Len(job.looked) :
         /\ job.looked[k].stored
         /\ job.looked[k].doc.value = 0
         /\ [job.looked[k].doc EXCEPT !.value = job.looked[k].amount] \in BagToSet(bridge)
         /\ job.looked[k].doc \notin BagToSet(bridge)
    /\ \E d \in BagToSet(bridge) : d.type = "withdrawal"

\* C22: no step removes or changes a stored snapshot of the daily transaction
\* count, of the weekly active addresses or of the TVL.
C22_SnapshotsAppendOnly ==
    [][Kept(daily, daily') /\ Kept(weekly, weekly') /\ Kept(tvl, tvl')]_vars

\* C22 witness: updateTVL has stored today's snapshot beside the one of the
\* day before, and the daily and weekly snapshots of the day before are as
\* they were.
C22_Witness ==
    /\ job.op = "updateTVL" /\ job.pc = "done" /\ Len(job.snaps) = 1
    /\ BagToSet(tvl) = {OldTvl, job.snaps[1]}
    /\ job.snaps[1].timestamp > OldTvl.timestamp
    /\ daily = SetToBag({OldSnapshot})
    /\ weekly = SetToBag({OldSnapshot})

\* C23: a backfill that is disabled or has blockCount 0 returns at once, reads
\* nothing from the chain and writes nothing; with blockCount -1 it scans from
\* the resume point + 1 (from block 1 on an empty collection) to the height it
\* read; with blockCount N > 0 it scans from max(1, height - N + 1) to the
\* height, wherever the resume point is.
C23_BlockCountPolicy ==
    [][\A s \in Slots :
          LET r == runs[s]
              r2 == runs'[s]
              last == LastProcessed(activity)
          IN  /\ (r2 # r /\ r2.kind = "bf" /\ (~cfg.enabled \/ cfg.blockCount = 0))
                    => (/\ r2.pc = "done" /\ r2.ret = 0 /\ r2.endBlock = 0
                        /\ activity' = activity
                        /\ bridge' = bridge)
              /\ (r.kind = "bf" /\ r.pc = "height" /\ r2.pc = "cursor")
                    => (r.count = -1 /\ r2.endBlock = height)
              /\ (r.kind = "bf" /\ r.pc = "cursor" /\ r2.pc \in {"block", "done"})
                    => (/\ r2.startBlock = IF last = None THEN 1 ELSE last + 1
                        /\ r2.endBlock = r.endBlock
                        /\ r2.pc = "block" => r2.i = r2.startBlock)
              /\ (r.kind = "bf" /\ r.pc = "height" /\ r2.pc \in {"block", "done"})
                    => (/\ r.count > 0
                        /\ r2.startBlock = IF height - r.count + 1 > 1
                                           THEN height - r.count + 1 ELSE 1
                        /\ r2.endBlock = height
                        /\ r2.pc = "block" => r2.i = r2.startBlock)
              /\ (r.kind = "bf" /\ Scanning(r) /\ r2.kind = "bf")
                    => (/\ r2.startBlock = r.startBlock
                        /\ r2.endBlock = r.endBlock
                        /\ r2.i \in {r.i, r.i + 1}
                        /\ r.i \in r.startBlock..r.endBlock)]_vars

\* the documents a step adds to a collection
Added(before, after) == {d \in BagToSet(after) : CopiesIn(d, after) > CopiesIn(d, before)}

\* C24: a scan moves from a height only to the next one, fetches the block of a
\* height once (and then goes into the block, goes on or is aborted), and every
\* document it writes carries the height it is at; so the heights it visits and
\* the blocks of the documents it writes never go down.
C24_BlocksInOrder ==
    [][/\ \A s \in Slots :
            LET r == runs[s]
                r2 == runs'[s]
            IN  (Scanning(r) /\ r2 # r /\ r2.kind = r.kind) =>
                  /\ r2.i \in {r.i, r.i + 1}
                  /\ r2.pc = "block" => r2.i = r.i + 1
                  /\ r.pc = "block" => (r2.i = r.i + 1 \/ r2.pc \in {"tx", "aborted"})
                  /\ r2.i = r.i + 1 => r2.pc \in {"block", "done"}
       /\ \A d \in Added(activity, activity') \cup Added(bridge, bridge') :
            \E s \in Slots :
                Scanning(runs[s]) /\ runs'[s] # runs[s] /\ d.blockNumber = runs[s].i]_vars

\* C24 witness: one scan, nothing failing, has gone from block 0 to block 3 and
\* has stored the documents of block 1 and then those of block 3.
C24_Witness ==
    \E s \in Slots :
        /\ runs[s].pc = "done" /\ started = 1 /\ crashes = 0 /\ faults = 0
        /\ runs[s].startBlock = 0 /\ runs[s].endBlock = 3 /\ runs[s].i = 4
        /\ {d.blockNumber : d \in BagToSet(activity)} = {1, 3}
        /\ {d.blockNumber : d \in BagToSet(bridge)} = {1, 3}

\* the stored activity documents of the calendar day that begins at `date`,
\* copies counted
EventsOn(date) ==
    BagCardinality([d \in {e \in BagToSet(activity) :
                              e.timestamp >= date /\ e.timestamp < date + 24 * 60 * 60 * 1000}
                       |-> CopiesIn(d, activity)])

\* C25: when its query succeeds, calculateDailyTransactions returns the number
\* of stored activity documents with timestamp in [today 00:00, tomorrow 00:00),
\* those of system addresses included.
C25_DailyCountsEveryEvent ==
    [][Returns("calculateDailyTransactions") =>
          job'.ret = EventsOn((clock \div (24 * 60 * 60 * 1000)) * 24 * 60 * 60 * 1000)]_vars

\* C25 witness: calculateDailyTransactions has returned 2 for an event of the
\* ArbSys address and an event of a sender, both in today's first millisecond;
\* the weekly count of the same collection is 1.
C25_Witness ==
    /\ job.op = "calculateDailyTransactions" /\ job.pc = "done" /\ ~job.failed
    /\ job.ret = 2
    /\ job.now = clock /\ clock = Today + 1000
    /\ \E d, e \in BagToSet(activity) :
         /\ d.address \in SYSTEM_ADDRESSES /\ d.timestamp = Today
         /\ e.address \notin SYSTEM_ADDRESSES /\ e.timestamp = Today
    /\ BagCardinality(activity) = 2
    /\ WeeklyActive(activity, clock) = 1

\* the counts of the latest snapshots stored for the day that begins at `today`
\* (0 when there is none)
LatestCounts(today) ==
    LET found == {d \in BagToSet(daily) : d.date = today}
    IN  IF found = {} THEN {0}
        ELSE {d.count : d \in {e \in found : \A f \in found : f.timestamp <= e.timestamp}}

\* C29: a getTodayTransactions whose count has thrown stores no snapshot and
\* returns the count of the latest snapshot stored for today, 0 when there is none.
C29_FailedCountFallsBack ==
    [][(job.op = "getTodayTransactions" /\ job.calcFailed /\ job' # job) =>
          /\ daily' = daily
          /\ job'.pc = "done" =>
                job'.ret \in LatestCounts((job.now \div (24 * 60 * 60 * 1000))
                                              * 24 * 60 * 60 * 1000)]_vars

\* the values of the TVL snapshot that was stored last; zero TVL when none is stored
LastStoredTvl ==
    IF tvl = EmptyBag THEN [tvlInETH |-> 0, tvlInUSD |-> Null]
    ELSE LET d == CHOOSE e \in BagToSet(tvl) : \A f \in BagToSet(tvl) : f.seq <= e.seq
         IN  [tvlInETH |-> d.tvlInETH, tvlInUSD |-> d.tvlInUSD]

\* C26: an updateTVL that got no balance (no L1 configuration, or the balance
\* query threw) does not throw, stores no snapshot, and returns the values of
\* the snapshot stored last, zero TVL when none is stored (the query of the
\* fallback succeeding).
C26_NoBalanceFallsBack ==
    /\ [][(/\ job.op = "updateTVL" /\ job.balance = None
            /\ job.pc = "getTVL" /\ job' # job) =>
             /\ tvl' = tvl
             /\ job'.pc = "done"
             /\ job'.snaps = <<>>
             /\ faults' = faults =>
                   (/\ job'.eth = LastStoredTvl.tvlInETH
                    /\ job'.usd = LastStoredTvl.tvlInUSD)]_vars
    /\ [](job.op = "updateTVL" => job.pc # "threw")

\* C28: what the 5-minute TVL timer calls has, when it returns, made a balance
\* query and, if the query gave a balance, stored a TVL snapshot.
C28_TimerRefreshesTvl ==
    (job.op = "calculateTVL" /\ job.pc = "done") =>
        /\ job.queries >= 1
        /\ job.balance # None => Len(job.snaps) = 1

\* the transaction is no deposit, goes to the ArbSys address and carries value
PlainWithdrawal(t) ==
    /\ TxInfo(t).type # 105
    /\ toLowerCase(TxInfo(t).to) = "0x64"
    /\ TxInfo(t).value > 0

\* C27: every withdrawal document stored belongs to a transaction that does not
\* carry the deposit type, goes to the ArbSys address and has value > 0; and a
\* scan that has passed such a transaction's block, with no call failing, has
\* stored its withdrawal document.
C27_WithdrawalIffNotDeposit ==
    /\ \A d \in BagToSet(bridge) : d.type = "withdrawal" => PlainWithdrawal(d.txHash)
    /\ \A s \in Slots, t \in Tx :
         (/\ runs[s].pc = "done" /\ faults = 0 /\ crashes = 0
          /\ TxBlock(t) \in runs[s].startBlock..runs[s].endBlock
          /\ PlainWithdrawal(t))
         => \E d \in BridgeDocs(t) : d.type = "withdrawal"

\* C30: every snapshot a weekly backfill has stored for a day counts the
\* addresses, system addresses left out, that were active in the 7 days that end
\* with that day: from the start of the 6th day before it to its end.
C30_WeeklyBackfillSevenDays ==
    [][Returns("backfillWeeklyActiveAddressHistory") =>
          \A k \in 1..Len(job'.snaps) :
              LET endOfDay == DayBack(job'.now, k) + 24 * 60 * 60 * 1000
              IN  job'.snaps[k].count =
                      Cardinality(ActiveBetween(endOfDay - 7 * 24 * 60 * 60 * 1000,
                                                endOfDay))]_vars


----------------------------------------------------------------------------
(* The list of the weekly active addresses *)

\* the stored events of address a with a timestamp in the last 7 days before now
EventsOf(a, now) ==
    Select(activity, {d \in DOMAIN activity : d.address = a /\ d.timestamp >= now - WEEK_MS})

\* the addresses outside SYSTEM_ADDRESSES with an event in the last 7 days
ActiveAddresses(now) ==
    {a \in {d.address : d \in DOMAIN activity} \ SYSTEM_ADDRESSES :
        BagCardinality(EventsOf(a, now)) > 0}

\* a getWeeklyActiveAddressDetails call returns, its aggregation not having thrown
DetailsReturn ==
    /\ job' # job
    /\ job'.op = "getWeeklyActiveAddressDetails"
    /\ job'.pc = "done"
    /\ ~job'.failed

\* C31: getWeeklyActiveAddressDetails returns exactly one entry for every
\* address outside the system addresses that has an event in the last 7 days
\* and no other entry; the entry's txCount is the number of the address's
\* events in the window, firstSeen and lastSeen are the smallest and the
\* greatest of their timestamps; the entries stand in descending txCount; and
\* there are as many entries as calculateWeeklyActiveAddresses counts on the
\* same data at the same time (stated for calls whose aggregation does not throw)
C31_DetailsMatchWeeklyCount ==
    [][DetailsReturn =>
        LET list == job'.addresses
        IN  /\ \A a \in ActiveAddresses(clock) :
                 Cardinality({i \in DOMAIN list : list[i].address = a}) = 1
            /\ \A i \in DOMAIN list :
                 LET events == EventsOf(list[i].address, clock)
                 IN  /\ list[i].address \in ActiveAddresses(clock)
                     /\ list[i].txCount = BagCardinality(events)
                     /\ \A d \in DOMAIN events :
                          list[i].firstSeen <= d.timestamp /\ d.timestamp <= list[i].lastSeen
                     /\ \E d \in DOMAIN events : d.timestamp = list[i].firstSeen
                     /\ \E d \in DOMAIN events : d.timestamp = list[i].lastSeen
            /\ \A i \in DOMAIN list : i > 1 => list[i - 1].txCount >= list[i].txCount
            /\ Len(list) = WeeklyActive(activity, clock)]_vars

\* the list has been returned with two entries of different txCount, the
\* first address seen at two different times, while an event of a system
\* address is stored as well
C31_Witness ==
    /\ job.op = "getWeeklyActiveAddressDetails" /\ job.pc = "done" /\ ~job.failed
    /\ Len(job.addresses) = 2
    /\ job.addresses[1].txCount = 2 /\ job.addresses[2].txCount = 1
    /\ job.addresses[1].firstSeen < job.addresses[1].lastSeen
    /\ \E d \in DOMAIN activity : d.address \in SYSTEM_ADDRESSES


----------------------------------------------------------------------------
(* The timestamp of the events *)

Events == DOMAIN activity \cup DOMAIN bridge

----------------------------------------------------------------------------
(* Termination of a scan *)

\* a processNewBlocks run in slot s is in its block loop
Looping(s) == runs[s].kind = "pnb" /\ Scanning(runs[s])

\* one step of the program seen from a processNewBlocks run in its block loop:
\* start and end stay as they were read, the block at work lies between them,
\* the run moves to the next block or stays with this one, and a block that
\* has been fetched is not fetched again
LoopStep(s) ==
    LET r == runs[s]
        r2 == runs'[s]
    IN  Looping(s) =>
            /\ r2.kind = "pnb" /\ r2.startBlock = r.startBlock /\ r2.endBlock = r.endBlock
            /\ r.startBlock <= r.i /\ r.i <= r.endBlock
            /\ Scanning(r2) => r2.i \in {r.i, r.i + 1}
            /\ (r.pc = "block" /\ r2.pc = "block" /\ r2 # r) => r2.i = r.i + 1
            /\ r2.pc = "done" => r2.ret = r.endBlock - r.startBlock + 1

\* C33: a processNewBlocks run ends: the end height it read when it started
\* stays fixed however the chain grows, the run fetches every block from start
\* to end at most once, in at most end - start + 1 block steps, never a block
\* above end, and then returns
C33_ScanTerminates ==
    /\ [][\A s \in Slots : LoopStep(s)]_vars
    /\ \A s \in Slots : (runs[s].kind = "pnb" /\ InFlight(runs[s])) ~> Free(runs[s])

\* a processNewBlocks run over two blocks or more has returned, the chain
\* having grown beyond its end height
C33_Witness ==
    \E s \in Slots :
        /\ runs[s].kind = "pnb" /\ runs[s].pc = "done"
        /\ runs[s].ret >= 2
        /\ runs[s].ret = runs[s].endBlock - runs[s].startBlock + 1
        /\ height > runs[s].endBlock


----------------------------------------------------------------------------
(* The timers *)

\* C34: an exception a scheduled job raises is caught in the timer callback
\* that awaits it: no exception leaves a callback, the timers stay registered,
\* and after a callback has caught one every timer can still fire
C34_ExceptionsCaught ==
    /\ sched.escaped = 0
    /\ (sched.fired > 0 \/ sched.caught # {}) => sched.timers
    /\ (sched.caught # {} /\ sched.fired < MaxFires) => \A t \in Timers : ENABLED Fire(t)

\* a callback has caught the exception of its job, and after that the same
\* timer and another one have fired
C34_Witness ==
    /\ sched.caught # {}
    /\ sched.afterCatch \cap sched.caught # {}
    /\ sched.afterCatch \ sched.caught # {}
    /\ sched.escaped = 0


----------------------------------------------------------------------------
(* The startup sequence *)

\* the startup block backfill is in flight
StartupBackfillRuns == \E s \in Slots : runs[s].kind = "bf" /\ InFlight(runs[s])

\* a block scan a timer started is in flight
TimerScanRuns == \E s \in Slots : runs[s].kind = "pnb" /\ InFlight(runs[s])

\* C36: the timers are registered only when the startup KPI updates, the
\* snapshot backfill and the block backfill have each finished or failed, no
\* timer-triggered scan exists before that, and the startup block backfill is
\* never in flight together with a timer-triggered block scan
C36_TimersAfterStartup ==
    /\ sched.timers =>
          /\ {"kpi", "history", "backfill"} \subseteq sched.done
          /\ ~StartupBackfillRuns
    /\ (\E s \in Slots : runs[s].kind = "pnb") => sched.timers
    /\ ~(StartupBackfillRuns /\ TimerScanRuns)

\* the startup backfill has stored events and returned, the timers are
\* registered, and the first timer-triggered scan has just started
C36_Witness ==
    /\ "backfill" \in sched.done
    /\ activity # EmptyBag
    /\ sched.timers
    /\ \E s \in Slots : runs[s].kind = "pnb" /\ runs[s].pc = "height"
    /\ started = 2


----------------------------------------------------------------------------
(* Concurrent scans *)

\* the scan in slot s has looked the txHash of its transaction up, found
\* nothing, and has not inserted yet
BetweenCheckAndInsert(s) ==
    runs[s].kind = "bf" /\ runs[s].pc \in {"depIns", "wdIns"}

\* the bridge documents of txHash t and of one type, with their copies
BridgeCopies(t, type) ==
    BagCardinality(Select(bridge, {d \in DOMAIN bridge : d.txHash = t /\ d.type = type}))

\* C35: with scans in flight together over the same blocks, no scan stands
\* between its existence check and its insert for a txHash while another scan
\* does, and the bridge collection never holds two events of the same type
\* for one txHash
C35_CheckAndInsertAtomic ==
    /\ \A s1, s2 \in Slots :
         (s1 # s2 /\ BetweenCheckAndInsert(s1) /\ BetweenCheckAndInsert(s2))
         => runs[s1].tx # runs[s2].tx
    /\ \A t \in Tx, type \in {"deposit", "withdrawal"} : BridgeCopies(t, type) <= 1


----------------------------------------------------------------------------
(* Reading the TVL *)

\* the TVL snapshot that was written last
LastWrittenTvl == CHOOSE e \in BagToSet(tvl) : \A f \in BagToSet(tvl) : f.seq <= e.seq

\* the snapshot written last is one of updateTVL, which stamps it with the
\* time of the write
UpdateTvlWroteLast == tvl # EmptyBag /\ LastWrittenTvl.timestamp = LastWrittenTvl.updatedAt

\* C37: a getTVL (or calculateTVL) whose query succeeds, called when the last
\* write to the TVL collection was a snapshot of updateTVL, returns the values
\* of that snapshot, whether or not backfillTvlHistory has written before
C37_GetTvlReturnsLastWritten ==
    [][(/\ job.op \in {"getTVL", "calculateTVL"}
        /\ job.pc = "getTVL" /\ job' # job
        /\ faults' = faults
        /\ UpdateTvlWroteLast) =>
           /\ job'.eth = LastWrittenTvl.tvlInETH
           /\ job'.usd = LastWrittenTvl.tvlInUSD]_vars


----------------------------------------------------------------------------
(* Writes of the price cache *)

\* the call in slot p ends in this step
PriceReturns(p) == priceCalls[p].pc = "fetch" /\ priceCalls'[p].pc = "done"

\* C38: a getEthPrice call whose request failed leaves the cache as it was,
\* price and fetch time; the cache changes only in the step in which a call's
\* request succeeds, to the price fetched and the time that call began; and
\* the cache never holds the default 3000 (which the upstream never answers here)
C38_FailedRefreshKeepsCache ==
    [][/\ \A p \in PriceSlots :
            (PriceReturns(p) /\ priceCalls'[p].failed) => ethPriceCache' = ethPriceCache
       /\ ethPriceCache' # ethPriceCache =>
            \E p \in PriceSlots :
                /\ PriceReturns(p) /\ ~priceCalls'[p].failed
                /\ ethPriceCache'.price = priceCalls'[p].ret
                /\ ethPriceCache'.timestamp = priceCalls'[p].now
       /\ ethPriceCache'.price # 3000]_vars

\* a call has returned the default 3000 with the cache still empty, and a call
\* has returned a stale price after its request failed, the cache keeping the
\* fetch time of the earlier success
C38_Witness ==
    \E p, q \in PriceSlots :
        /\ priceCalls[p].pc = "done" /\ priceCalls[p].failed
        /\ priceCalls[p].ret = 3200 /\ priceCalls[p].now - ethPriceCache.timestamp >= 5 * 60 * 1000
        /\ ethPriceCache.price = 3200
        /\ priceCalls[q].pc = "done" /\ priceCalls[q].failed /\ priceCalls[q].ret = 3000

\* C39: with getEthPrice calls in flight together, the fetch time held in the
\* price cache never decreases
C39_FetchTimeMonotone ==
    [][ethPriceCache'.timestamp >= ethPriceCache.timestamp]_vars

====
